---- MODULE Spec2Model ----
(***************************************************************************)
(* Model of omni.bind: the diagnostic reporter tree (diagnostics.py), the  *)
(* ABI-safety check of method return types (extract.py, model.py), and the *)
(* command-line driver with the generator's commit step (cli.py,           *)
(* generate/__init__.py); and, each under a specification of its own, the  *)
(* OMNI_ATTR annotation parser (model.py), get_attributes and the class    *)
(* hierarchy (extract.py), compare_files (generate/__init__.py), Lazy      *)
(* (_util.py), the attribute rules of one parameter and the properties of  *)
(* an interface (model.py), and emit with inputs that raise.               *)
(***************************************************************************)
EXTENDS Integers, Sequences, FiniteSets, TLC

VARIABLES
    stack,      \* the open reporters: stack[1] is the root, the others are DiagnosticReportBlocks
    output,     \* the root TextDiagnosticReporter's output sink
    exc,        \* the exception in flight, <<>> when there is none
    rootScope,  \* TRUE while the root reporter is entered as a context manager
    ops,        \* number of caller operations made so far
    accepted,   \* per open reporter, the messages its emits returned (history)
    last,       \* the last operation, its inputs and what it returned
    argv,       \* main(): the parsed command line (args)
    fs,         \* the file system: per file name None or [content, mtime]
    fs0,        \* the file system when main() started (history)
    fsLog,      \* the file operations main() made, in order (history)
    clock,      \* the file system's time
    pc,         \* main(): where the run is
    run,        \* main(): what the front end and the model builder did this run
    runs,       \* the earlier runs of main(): what they did and the files they left
    exitCode,   \* the process exit code, None while main() runs
    escaped,    \* the exception main() re-raised, None if it returned
    method,     \* Method.__init__: the declaration of the method being built
    apc,        \* Method.__init__: where the construction is
    parameters, \* Method.__init__: the parameters built so far
    spelling,   \* Attributes._parse: the annotation's tokens, <<>> for a spelling without any
    tokens_done, \* Attributes._parse: the tokens parsed so far
    attributes, \* Attributes._parse: the root record and its chain of pointee records
    attr_pre,   \* the records before the last token was parsed (history)
    attr_exc,   \* the exception Attributes.__init__ raised, None if none
    decl,       \* get_attributes: the children of the declaration, in order
    got,        \* get_attributes: whether it was called and what it returned
    tu,         \* Hierarchy: the classes and class templates of the translation unit
    hier,       \* Hierarchy.get_hierarchy: per class asked about, the list returned
    cmp_fs,     \* compare_files: the two files it is given
    compared,   \* compare_files: the CompareResult it returned, None before the call
    lazy_value, \* Lazy: the cached _value, None while the attribute is not set
    loads,      \* Lazy: how often the loader was called
    calls,      \* Lazy: the calls made so far and what each returned (history)
    methods,    \* Interface.__init__: the methods of the interface, in order
    properties  \* Interface.__init__: the properties map, None until it is built

diagVars == <<stack, output, exc, rootScope, ops, accepted, last>>

cliVars == <<argv, fs, fs0, fsLog, clock, pc, run, runs, exitCode, escaped>>

abiVars == <<method, apc, parameters>>

attrVars == <<spelling, tokens_done, attributes, attr_pre, attr_exc>>

vars == <<stack, output, exc, rootScope, ops, accepted, last,
          argv, fs, fs0, fsLog, clock, pc, run, runs, exitCode, escaped,
          method, apc, parameters,
          spelling, tokens_done, attributes, attr_pre, attr_exc,
          decl, got, tu, hier, cmp_fs, compared, lazy_value, loads, calls,
          methods, properties>>

----------------------------------------------------------------------------
(* Bounds *)

MaxOps == 3       \* caller operations in one behaviour
MaxDepth == 2     \* nested report blocks open at once

----------------------------------------------------------------------------
(* DiagnosticLevel *)

IGNORED == 0
VERBOSE == 1
NOTE == 2
WARNING == 3
ERROR == 4
FATAL == 5

DiagnosticLevel == IGNORED..FATAL

LevelName(l) == <<"ignored", "verbose", "note", "warning", "error", "fatal">>[l + 1]

Max(a, b) == IF a >= b THEN a ELSE b

\* typing.Optional: <<>> is None, <<v>> is the value v
None == <<>>
Some(v) == <<v>>

----------------------------------------------------------------------------
(* SourceLocation, DiagnosticMessage *)

Loc1 == [file |-> "file.cpp", line |-> 50, column |-> 8]

\* str() of a small number
ValueStr(n) == <<"0", "1", "2", "3", "4", "5", "6", "7", "8", "9">>[n + 1]

\* what the n-th caller operation passes as (source, message, *format_args): the source
\* is None or a SourceLocation; the message is a format string, as its sequence of
\* literal pieces and "{}" replacement fields; each argument is given by its str()
Input(n) ==
    [source |-> IF n % 2 = 0 THEN None ELSE Some(Loc1),
     message |-> <<"Bad value ", "{}">>,
     args |-> << <<ValueStr(n)>> >>]

\* literal pieces that str.format cannot parse: text with braces that are no field
Unformattable == {"void f() { }"}

KeyError == [type |-> "KeyError", text |-> <<"' '">>, diagnostic |-> None]

IndexError ==
    [type |-> "IndexError", text |-> <<"Replacement index out of range">>,
     diagnostic |-> None]

NumFields(message) == Cardinality({k \in 1..Len(message) : message[k] = "{}"})

\* an argument whose __str__ and __repr__ raise (test_diagnostics.py, RaiseOnRepr)
RaiseOnRepr == <<"<RaiseOnRepr>">>

ReprError ==
    [type |-> "NotImplementedError", text |-> <<"__str__ cannot be called">>,
     diagnostic |-> None]

\* str.format(message, *args): the exception it raises, None when it returns; only the
\* arguments a replacement field uses are converted
format_raises(message, args) ==
    IF \E k \in 1..Len(message) : message[k] \in Unformattable THEN Some(KeyError)
    ELSE IF NumFields(message) > Len(args) THEN Some(IndexError)
    ELSE IF \E k \in 1..NumFields(message) : args[k] = RaiseOnRepr THEN Some(ReprError)
    ELSE None

\* str.format(message, *args): the text, each field replaced by the next argument
RECURSIVE str_format(_, _)
str_format(message, args) ==
    IF message = <<>> THEN <<>>
    ELSE IF Head(message) = "{}"
         THEN Head(args) \o str_format(Tail(message), Tail(args))
         ELSE <<Head(message)>> \o str_format(Tail(message), args)

\* a source without file, line and column and without a location
BadSource == Some([repr |-> "42"])

TypeError ==
    [type |-> "TypeError", text |-> <<"The source parameter must be a Source or None">>,
     diagnostic |-> None]

_is_source_location(source) == {"file", "line", "column"} \subseteq DOMAIN source[1]

\* get_source_location: the exception it raises, None when it returns
source_raises(source) ==
    IF source = None THEN None
    ELSE IF _is_source_location(source) THEN None
    ELSE Some(TypeError)

\* get_source_location when it returns: None, or the SourceLocation with the source's
\* file, line and column
get_source_location(source) ==
    IF source = None THEN None
    ELSE Some([file |-> source[1].file, line |-> source[1].line,
               column |-> source[1].column])

DiagnosticMessage(level, source, message) ==
    [level |-> level, source |-> source, message |-> message, nested |-> <<>>]

\* DiagnosticMessage.__str__: print_into without the nested messages
RECURSIVE print_into(_, _, _)
print_into(msg, indent, print_nested) ==
    LET head == [indent |-> indent,
                 source |-> msg.source,
                 level |-> LevelName(msg.level),
                 message |-> msg.message,
                 related |-> Len(msg.nested)]
        F[k \in 0..Len(msg.nested)] ==
            IF k = 0 THEN <<>>
            ELSE F[k - 1] \o print_into(msg.nested[k], indent + 1, print_nested)
    IN  IF print_nested THEN <<head>> \o F[Len(msg.nested)] ELSE <<head>>

MsgStr(msg) == <<LevelName(msg.level), ": ">> \o msg.message

----------------------------------------------------------------------------
(* DiagnosticReporter *)

\* DiagnosticReporter.__init__ ; parent = 0 for the root
NewReporter(kind, parent, initial) ==
    [kind |-> kind,
     parent |-> parent,
     diagnostics |-> <<>>,
     worst |-> IGNORED,
     log |-> None,
     err |-> None,
     initial |-> initial]

\* _value_for looking at the reporter's own override only
value_for_local(s, i, selector, default) ==
    IF s[i][selector] # None THEN s[i][selector][1] ELSE default

RECURSIVE value_for(_, _, _, _)
value_for(s, i, selector, default) ==
    IF s[i][selector] # None THEN s[i][selector][1]
    ELSE IF s[i].parent # 0 THEN value_for(s, s[i].parent, selector, default)
    ELSE default

diagnostic_log_level(s, i) == value_for(s, i, "log", NOTE)

diagnostic_error_level(s, i) == value_for(s, i, "err", ERROR)

valid(s, i) == s[i].worst < diagnostic_error_level(s, i)

\* the messages validate() iterates over: those at the worst level, in list order
AtWorst(s, i) ==
    LET ds == s[i].diagnostics
    IN  {k \in 1..Len(ds) : ds[k].level = s[i].worst}

FirstAtWorst(s, i) ==
    LET idx == AtWorst(s, i)
    IN  s[i].diagnostics[CHOOSE k \in idx : \A j \in idx : k <= j]

DiagnosticException(diag) ==
    [type |-> "DiagnosticException", text |-> MsgStr(diag), diagnostic |-> Some(diag)]

\* next() on the exhausted generator inside validate()
StopIteration == [type |-> "StopIteration", text |-> <<>>, diagnostic |-> None]

NotImplementedError ==
    [type |-> "NotImplementedError", text |-> <<"Something horrible happened">>,
     diagnostic |-> None]

\* DiagnosticReporter.validate: the exception it raises, None when it returns
validate(s, i) ==
    IF valid(s, i) THEN None
    ELSE IF AtWorst(s, i) = {} THEN Some(StopIteration)
    ELSE Some(DiagnosticException(FirstAtWorst(s, i)))

\* the result of an emit: the new reporters, the returned value, what was printed,
\* and the exception raised instead of returning (None when it returns)
EmitResult(s, ret, printed, raised) ==
    [stack |-> s, ret |-> ret, printed |-> printed, raised |-> raised]

\* emit_message rejecting a message whose level equals the log level
emit_message_strict(s, i, msg) ==
    IF msg.level <= diagnostic_log_level(s, i)
    THEN EmitResult(s, None, <<>>, None)
    ELSE LET r == [s[i] EXCEPT !.diagnostics = Append(@, msg),
                               !.worst = IF msg.level > @ THEN msg.level ELSE @]
         IN  EmitResult([s EXCEPT ![i] = r],
                        Some(msg),
                        IF s[i].kind = "text" THEN print_into(msg, 0, TRUE) ELSE <<>>,
                        None)

\* emit_message of a text reporter writing the message before asking whether it is accepted
emit_message_writes_first(s, i, msg) ==
    LET r == [s[i] EXCEPT !.diagnostics = Append(@, msg),
                          !.worst = IF msg.level > @ THEN msg.level ELSE @]
        printed == IF s[i].kind = "text" THEN print_into(msg, 0, TRUE) ELSE <<>>
    IN  IF msg.level < diagnostic_log_level(s, i)
        THEN EmitResult(s, None, printed, None)
        ELSE EmitResult([s EXCEPT ![i] = r], Some(msg), printed, None)

\* emit_message recording the level of the last message as the worst
emit_message_last_level(s, i, msg) ==
    IF msg.level < diagnostic_log_level(s, i)
    THEN EmitResult(s, None, <<>>, None)
    ELSE LET r == [s[i] EXCEPT !.diagnostics = Append(@, msg), !.worst = msg.level]
         IN  EmitResult([s EXCEPT ![i] = r],
                        Some(msg),
                        IF s[i].kind = "text" THEN print_into(msg, 0, TRUE) ELSE <<>>,
                        None)

\* DiagnosticReporter.emit_message, extended by TextDiagnosticReporter.emit_message
emit_message(s, i, msg) ==
    IF msg.level < diagnostic_log_level(s, i)
    THEN EmitResult(s, None, <<>>, None)
    ELSE LET r == [s[i] EXCEPT !.diagnostics = Append(@, msg),
                               !.worst = IF msg.level > @ THEN msg.level ELSE @]
         IN  EmitResult([s EXCEPT ![i] = r],
                        Some(msg),
                        IF s[i].kind = "text" THEN print_into(msg, 0, TRUE) ELSE <<>>,
                        None)

\* DiagnosticReporter.emit converting the source and the arguments before the level test
emit_eager(s, i, level, source, message, args) ==
    IF source_raises(source) # None
    THEN EmitResult(s, None, <<>>, source_raises(source))
    ELSE IF format_raises(message, args) # None
    THEN EmitResult(s, None, <<>>, format_raises(message, args))
    ELSE emit_message(s, i, DiagnosticMessage(level, get_source_location(source),
                                              str_format(message, args)))

\* DiagnosticReporter.emit
emit(s, i, level, source, message, args) ==
    IF level < diagnostic_log_level(s, i)
    THEN EmitResult(s, None, <<>>, None)
    ELSE IF source_raises(source) # None
    THEN EmitResult(s, None, <<>>, source_raises(source))
    ELSE IF format_raises(message, args) # None
    THEN EmitResult(s, None, <<>>, format_raises(message, args))
    ELSE emit_message(s, i, DiagnosticMessage(level, get_source_location(source),
                                              str_format(message, args)))

----------------------------------------------------------------------------
(* The reporter tree as a state machine *)

NoMsg == DiagnosticMessage(IGNORED, None, <<>>)

\* the record of the last operation: the operation, the reporter it acted on, its level
\* (of the message, of the threshold, or the block's root level), the message it built,
\* what it returned, the messages the reporter had accepted before, those its parent
\* held before, the fatal message an abnormal exit recorded, the exception at its start
Last(op, rep, level, arg, ret, pre, ppre) ==
    [op |-> op, rep |-> rep, level |-> level, arg |-> arg, ret |-> ret,
     pre |-> pre, ppre |-> ppre, fatal |-> None, e |-> None]

\* the reporter tree on its own: no command line, no files
NoArgs ==
    [api |-> FALSE, py |-> FALSE, M |-> FALSE, ast |-> FALSE, verbose |-> FALSE,
     debug |-> FALSE, skip |-> FALSE, fail |-> FALSE]

\* no annotation being parsed
AttrIdle ==
    /\ spelling = <<>>
    /\ tokens_done = 0
    /\ attributes = <<>>
    /\ attr_pre = <<>>
    /\ attr_exc = None

declVars == <<decl, got>>

\* no declaration being asked for its attributes
DeclIdle ==
    /\ decl = <<>>
    /\ got = [called |-> FALSE, ret |-> None]

hierVars == <<tu, hier>>

\* no translation unit indexed
HierIdle ==
    /\ tu = <<>>
    /\ hier = <<>>

cmpVars == <<cmp_fs, compared>>

\* no files being compared
CmpIdle ==
    /\ cmp_fs = <<>>
    /\ compared = None

lazyVars == <<lazy_value, loads, calls>>

\* no Lazy in use
LazyIdle ==
    /\ lazy_value = None
    /\ loads = 0
    /\ calls = <<>>

propVars == <<methods, properties>>

\* no interface being built
PropIdle ==
    /\ methods = <<>>
    /\ properties = None

unitVars == <<attrVars, declVars, hierVars, cmpVars, lazyVars, propVars>>

UnitIdle == AttrIdle /\ DeclIdle /\ HierIdle /\ CmpIdle /\ LazyIdle /\ PropIdle

DiagOnly == UNCHANGED <<cliVars, abiVars, unitVars>>

\* a fresh text reporter; no command line, no files, no method under construction
DiagIdle ==
    /\ method = <<>>
    /\ apc = "idle"
    /\ parameters = 0
    /\ argv = NoArgs
    /\ fs = <<>>
    /\ fs0 = <<>>
    /\ fsLog = <<>>
    /\ clock = 0
    /\ pc = "idle"
    /\ run = <<>>
    /\ runs = <<>>
    /\ exitCode = None
    /\ escaped = None
    /\ stack = <<NewReporter("text", 0, NoMsg)>>
    /\ output = <<>>
    /\ exc = None
    /\ rootScope = FALSE
    /\ ops = 0
    /\ accepted = << <<>> >>
    /\ last = Last("init", 0, IGNORED, None, None, <<>>, <<>>)

DiagInit == UnitIdle /\ DiagIdle

Running == exc = None /\ ops < MaxOps

\* reporter.emit(level, source, message) on any open reporter
Emit(i, level, in) ==
    /\ DiagOnly
    /\ Running
    /\ LET r == emit(stack, i, level, in.source, in.message, in.args)
       IN  /\ stack' = r.stack
           /\ output' = output \o r.printed
           /\ exc' = r.raised
           /\ accepted' = [accepted EXCEPT ![i] =
                               IF r.ret = None THEN @
                               ELSE Append(@, DiagnosticMessage(level, in.source,
                                                  str_format(in.message, in.args)))]
           /\ last' = Last("emit", i, level,
                           IF r.raised # None THEN None
                           ELSE Some(DiagnosticMessage(level, in.source,
                                                       str_format(in.message, in.args))),
                           r.ret, accepted[i], <<>>)
    /\ ops' = ops + 1
    /\ UNCHANGED rootScope

\* the diagnostic_log_level setter
SetLogLevel(i, v) ==
    /\ DiagOnly
    /\ Running
    /\ stack' = [stack EXCEPT ![i].log = Some(v)]
    /\ last' = Last("set_log", i, v, None, None, accepted[i], <<>>)
    /\ ops' = ops + 1
    /\ UNCHANGED <<output, exc, rootScope, accepted>>

\* the diagnostic_log_level deleter
DelLogLevel(i) ==
    /\ DiagOnly
    /\ Running
    /\ stack[i].log # None
    /\ stack' = [stack EXCEPT ![i].log = None]
    /\ last' = Last("del_log", i, IGNORED, None, None, accepted[i], <<>>)
    /\ ops' = ops + 1
    /\ UNCHANGED <<output, exc, rootScope, accepted>>

\* the diagnostic_error_level setter
SetErrorLevel(i, v) ==
    /\ DiagOnly
    /\ Running
    /\ stack' = [stack EXCEPT ![i].err = Some(v)]
    /\ last' = Last("set_err", i, v, None, None, accepted[i], <<>>)
    /\ ops' = ops + 1
    /\ UNCHANGED <<output, exc, rootScope, accepted>>

\* the diagnostic_error_level deleter
DelErrorLevel(i) ==
    /\ DiagOnly
    /\ Running
    /\ stack[i].err # None
    /\ stack' = [stack EXCEPT ![i].err = None]
    /\ last' = Last("del_err", i, IGNORED, None, None, accepted[i], <<>>)
    /\ ops' = ops + 1
    /\ UNCHANGED <<output, exc, rootScope, accepted>>

\* reporter.nest(level, source, message) followed by __enter__ of the block
Nest(i, level, in) ==
    /\ DiagOnly
    /\ Running
    /\ Len(stack) <= MaxDepth
    /\ stack' = Append(stack, NewReporter("block", i,
                    DiagnosticMessage(level, get_source_location(in.source),
                                      str_format(in.message, in.args))))
    /\ accepted' = Append(accepted, <<>>)
    /\ last' = Last("nest", i, level, None, None, <<>>, <<>>)
    /\ ops' = ops + 1
    /\ UNCHANGED <<output, exc, rootScope>>

root_level(s, i) == s[i].initial.level

\* the root_level setter of a report block
SetRootLevel(i, v) ==
    /\ DiagOnly
    /\ Running
    /\ stack[i].kind = "block"
    /\ stack' = [stack EXCEPT ![i].initial.level = v]
    /\ last' = Last("set_root", i, v, None, None, accepted[i], <<>>)
    /\ ops' = ops + 1
    /\ UNCHANGED <<output, exc, rootScope, accepted>>

\* reporter.validate() called by the code inside the scopes
Validate(i) ==
    /\ DiagOnly
    /\ exc = None
    /\ exc' = validate(stack, i)
    /\ last' = Last("validate", i, stack[i].worst, None, None, accepted[i], <<>>)
    /\ UNCHANGED <<stack, output, rootScope, ops, accepted>>

\* the code inside the innermost scope raises
Raise ==
    /\ DiagOnly
    /\ Running
    /\ exc' = Some(NotImplementedError)
    /\ last' = Last("raise", Len(stack), IGNORED, None, None, <<>>, <<>>)
    /\ ops' = ops + 1
    /\ UNCHANGED <<stack, output, rootScope, accepted>>

\* __exit__ with an exception that records nothing
exit_fatal_skipped(s, i, e) == EmitResult(s, None, <<>>, None)

\* DiagnosticReporter.__exit__ with an exception: self.fatal(None, "Got {} exception ...")
exit_fatal(s, i, e) ==
    emit(s, i, FATAL, None, <<"Got ", "{}", " exception during processing: ", "{}">>,
         <<<<e.type>>, e.text>>)

\* __exit__ keeping the declared level, whatever the nested messages
block_exit_no_escalation(s, e) ==
    LET top == Len(s)
        r1 == IF e # None THEN exit_fatal(s, top, e[1]) ELSE EmitResult(s, None, <<>>, None)
        blk == r1.stack[top]
        msg == [blk.initial EXCEPT !.nested = blk.diagnostics]
        r2 == emit_message(r1.stack, blk.parent, msg)
    IN  [stack |-> SubSeq(r2.stack, 1, top - 1), ret |-> r2.ret,
         printed |-> r1.printed \o r2.printed, msg |-> msg, fatal |-> r1.ret]

\* __exit__ handing over the first nested message only
block_exit_first_nested(s, e) ==
    LET top == Len(s)
        r1 == IF e # None THEN exit_fatal(s, top, e[1]) ELSE EmitResult(s, None, <<>>, None)
        blk == r1.stack[top]
        msg == [blk.initial EXCEPT !.level = Max(blk.worst, root_level(r1.stack, top)),
                                   !.nested = IF blk.diagnostics = <<>> THEN <<>>
                                              ELSE <<Head(blk.diagnostics)>>]
        r2 == emit_message(r1.stack, blk.parent, msg)
    IN  [stack |-> SubSeq(r2.stack, 1, top - 1), ret |-> r2.ret,
         printed |-> r1.printed \o r2.printed, msg |-> msg, fatal |-> r1.ret]

\* DiagnosticReportBlock.__exit__ of the innermost block
block_exit(s, e) ==
    LET top == Len(s)
        r1 == IF e # None THEN exit_fatal(s, top, e[1]) ELSE EmitResult(s, None, <<>>, None)
        blk == r1.stack[top]
        msg == [blk.initial EXCEPT !.level = Max(blk.worst, root_level(r1.stack, top)),
                                   !.nested = blk.diagnostics]
        r2 == emit_message(r1.stack, blk.parent, msg)
    IN  [stack |-> SubSeq(r2.stack, 1, top - 1), ret |-> r2.ret,
         printed |-> r1.printed \o r2.printed, msg |-> msg, fatal |-> r1.ret]

BlockExit ==
    /\ DiagOnly
    /\ Len(stack) > 1
    /\ LET r == block_exit(stack, exc)
           top == Len(stack)
       IN  /\ stack' = r.stack
           /\ output' = output \o r.printed
           /\ accepted' = [SubSeq(accepted, 1, top - 1) EXCEPT ![stack[top].parent] = @ \o r.ret]
           /\ last' = [Last(IF exc = None THEN "block_exit" ELSE "block_exit_exc",
                            stack[top].parent, root_level(stack, top), Some(r.msg), r.ret,
                            accepted[top], accepted[stack[top].parent])
                           EXCEPT !.fatal = r.fatal, !.e = exc]
    /\ UNCHANGED <<exc, rootScope, ops>>

\* DiagnosticReporter.__enter__ of the root reporter
Enter ==
    /\ DiagOnly
    /\ Running
    /\ ~rootScope
    /\ Len(stack) = 1
    /\ rootScope' = TRUE
    /\ last' = Last("enter", 1, IGNORED, None, None, <<>>, <<>>)
    /\ ops' = ops + 1
    /\ UNCHANGED <<stack, output, exc, accepted>>

\* DiagnosticReporter.__exit__ of the root reporter
ReporterExit ==
    /\ DiagOnly
    /\ rootScope
    /\ Len(stack) = 1
    /\ rootScope' = FALSE
    /\ IF exc = None
       THEN /\ exc' = validate(stack, 1)
            /\ last' = Last("exit", 1, stack[1].worst, None, None, accepted[1], <<>>)
            /\ UNCHANGED <<stack, output, accepted>>
       ELSE LET r == exit_fatal(stack, 1, exc[1])
            IN  /\ stack' = r.stack
                /\ output' = output \o r.printed
                /\ accepted' = [accepted EXCEPT ![1] = @ \o r.ret]
                /\ last' = [Last("exit_exc", 1, FATAL, None, r.ret, accepted[1], <<>>)
                               EXCEPT !.e = exc]
                /\ UNCHANGED exc
    /\ UNCHANGED ops

\* the exception leaves the outermost scope and the caller catches it
Catch ==
    /\ DiagOnly
    /\ exc # None
    /\ Len(stack) = 1
    /\ ~rootScope
    /\ exc' = None
    /\ last' = Last("catch", 0, IGNORED, None, None, <<>>, <<>>)
    /\ UNCHANGED <<stack, output, rootScope, ops, accepted>>

Reporters == 1..Len(stack)

\* the innermost open reporter: the one the code inside the scopes reports to
Top == Len(stack)

\* the log levels and error thresholds callers set (the defaults are NOTE and ERROR)
LogLevels == {VERBOSE, WARNING, FATAL}

ErrorLevels == {IGNORED, WARNING}

\* the levels callers reset a block's root level to
RootLevels == {NOTE, FATAL}

\* the (source, message) a nested block is opened with
NestInput == [source |-> Some(Loc1), message |-> <<"m0">>, args |-> <<>>]

Next ==
    \/ \E l \in DiagnosticLevel : Emit(Top, l, Input(ops))
    \/ \E i \in Reporters, l \in LogLevels : SetLogLevel(i, l)
    \/ \E i \in Reporters : DelLogLevel(i)
    \/ \E i \in Reporters, l \in ErrorLevels : SetErrorLevel(i, l)
    \/ \E i \in Reporters : DelErrorLevel(i)
    \/ \E l \in DiagnosticLevel : Nest(Top, l, NestInput)
    \/ \E l \in RootLevels : SetRootLevel(Top, l)
    \/ \E i \in Reporters : Validate(i)
    \/ Raise
    \/ BlockExit
    \/ Enter
    \/ ReporterExit
    \/ Catch

Spec == DiagInit /\ [][Next]_vars

\* what a caller may pass to emit: no source, a SourceLocation or an object that is no
\* source; an argument with a str() or one whose __str__ raises
EmitInputs ==
    {[source |-> src, message |-> <<"Ignore me ", "{}">>, args |-> <<arg>>] :
        src \in {None, Some(Loc1), BadSource}, arg \in {<<"7">>, RaiseOnRepr}}

\* emit with any of these inputs, between changes of the log level
EmitNext ==
    \/ \E l \in DiagnosticLevel, in \in EmitInputs : Emit(Top, l, in)
    \/ \E i \in Reporters, l \in LogLevels : SetLogLevel(i, l)
    \/ \E i \in Reporters : DelLogLevel(i)
    \/ \E l \in DiagnosticLevel : Nest(Top, l, NestInput)
    \/ Catch

SpecEmit == DiagInit /\ [][EmitNext]_vars

----------------------------------------------------------------------------
(* Files and the code generator (generate/__init__.py) *)

Today == 2026       \* date.today().year of a run
OldYear == 2020     \* the year in the copyright comment of an older output

InFile == "in.h"
DepFile == "dep.h"
ToolFile == "omni/bind/__init__.py"
ApiFile == "api.gen.h"
PyFile == "py.gen.h"
IncludesFile == "out.d"

\* CodeGenerator.__init__: f"{out_filename}.~nv"
tmp_filename(out) == IF out = ApiFile THEN "api.gen.h.~nv" ELSE "py.gen.h.~nv"

Files ==
    {InFile, DepFile, ToolFile, ApiFile, PyFile, IncludesFile,
     tmp_filename(ApiFile), tmp_filename(PyFile)}

\* a line of a file: its text, and the years a copyright comment names
CopyrightText == "// Copyright (c) {years}, NVIDIA CORPORATION. All rights reserved."

CopyrightLine(years) == [text |-> CopyrightText, years |-> years]

CodeLine(text) == [text |-> text, years |-> <<>>]

Blank == CodeLine("")

\* a file: its lines and its modification time
File(content, mtime) == [content |-> content, mtime |-> mtime]

exists(f, name) == f[name] # None

FileNotFoundError(name) ==
    [type |-> "FileNotFoundError",
     text |-> <<"[Errno 2] No such file or directory: ", name>>,
     diagnostic |-> None]

\* the effects of a piece of main() so far: the reporter, what it printed, the files,
\* the file operations made, the time, and the exception raised (None while running)
Ctx(s, out, f, log, t) ==
    [stack |-> s, output |-> out, fs |-> f, log |-> log, clock |-> t, raised |-> None]

\* reporter.<level>(None, message, *args) on main()'s reporter
report(c, level, message, fargs) ==
    IF c.raised # None THEN c
    ELSE LET r == emit(c.stack, 1, level, None, message, fargs)
         IN  [c EXCEPT !.stack = r.stack, !.output = @ \o r.printed, !.raised = r.raised]

\* open(name, "w"), write, close
write_file(c, name, content) ==
    IF c.raised # None THEN c
    ELSE [c EXCEPT !.fs = [@ EXCEPT ![name] = Some(File(content, c.clock))],
                   !.log = Append(@, [op |-> "write", file |-> name]),
                   !.clock = @ + 1]

\* Path(name).touch()
touch(c, name) ==
    IF c.raised # None THEN c
    ELSE [c EXCEPT !.fs = [@ EXCEPT ![name] =
                              IF @ = None THEN Some(File(<<>>, c.clock))
                              ELSE Some(File(@[1].content, c.clock))],
                   !.log = Append(@, [op |-> "touch", file |-> name]),
                   !.clock = @ + 1]

\* os.remove(name)
remove(c, name) ==
    IF c.raised # None THEN c
    ELSE IF ~exists(c.fs, name) THEN [c EXCEPT !.raised = Some(FileNotFoundError(name))]
    ELSE [c EXCEPT !.fs = [@ EXCEPT ![name] = None],
                   !.log = Append(@, [op |-> "remove", file |-> name])]

\* shutil.move(src, dst): dst becomes the file src was
\* a move that copies: the source stays
move_keeps_source(c, src, dst) ==
    IF c.raised # None THEN c
    ELSE IF ~exists(c.fs, src) THEN [c EXCEPT !.raised = Some(FileNotFoundError(src))]
    ELSE [c EXCEPT !.fs = [@ EXCEPT ![dst] = c.fs[src]],
                   !.log = Append(@, [op |-> "move", file |-> dst])]

move(c, src, dst) ==
    IF c.raised # None THEN c
    ELSE IF ~exists(c.fs, src) THEN [c EXCEPT !.raised = Some(FileNotFoundError(src))]
    ELSE [c EXCEPT !.fs = [@ EXCEPT ![dst] = c.fs[src], ![src] = None],
                   !.log = Append(@, [op |-> "move", file |-> dst])]

\* compare_files.read_lines: the lines without a first line that starts "// Copyright"
\* read_lines skipping the first line whatever it is
read_lines_skip_first(content) == IF content # <<>> THEN Tail(content) ELSE content

read_lines(content) ==
    IF content # <<>> /\ Head(content).text = CopyrightText THEN Tail(content)
    ELSE content

Texts(lines) == [k \in 1..Len(lines) |-> lines[k].text]

InSeq(x, seq) == \E k \in 1..Len(seq) : seq[k] = x

\* difflib.context_diff of two short files (one hunk): the header, then the old lines
\* when some old line is replaced or deleted, then the new lines when some is new
context_diff(old_lines, gen_lines, current_filename) ==
    IF old_lines = gen_lines THEN <<>>
    ELSE <<"*** saved ", current_filename, "--- generated ", current_filename,
           "***************", "*** old ****">>
         \o (IF \E k \in 1..Len(old_lines) : ~InSeq(old_lines[k], gen_lines)
             THEN Texts(old_lines) ELSE <<>>)
         \o <<"--- new ----">>
         \o (IF \E k \in 1..Len(gen_lines) : ~InSeq(gen_lines[k], old_lines)
             THEN Texts(gen_lines) ELSE <<>>)

CompareResult(are_same, differences) ==
    [are_same |-> are_same, differences |-> differences]

compare_files(f, current_filename, generated_filename) ==
    LET old_lines == read_lines(f[current_filename][1].content)
        gen_lines == read_lines(f[generated_filename][1].content)
        diff_result == context_diff(old_lines, gen_lines, current_filename)
    IN  CompareResult(diff_result = <<>>, diff_result)

\* CodeGenerator._compare_files
_compare_files(f, out) ==
    IF ~exists(f, out)
    THEN CompareResult(FALSE, <<"Previous file did not exist. Was it not checked in?">>)
    ELSE compare_files(f, out, tmp_filename(out))

\* CodeGenerator.__init__: the copyright year, from the first line of the old output
copyright_year(f, out, today) ==
    IF exists(f, out) /\ f[out][1].content # <<>>
       /\ Head(f[out][1].content).text = CopyrightText
       /\ Head(f[out][1].content).years # <<>>
       /\ Head(f[out][1].content).years[1] # today
    THEN <<Head(f[out][1].content).years[1], today>>
    ELSE <<today>>

\* CodeGenerator.__init__: the temporary file is opened for writing
CodeGenerator(c, out) == write_file(c, tmp_filename(out), <<>>)

\* CodeGenerator._write, as the lines the temporary file holds after it
_write(c, out, lines) ==
    IF c.raised # None THEN c
    ELSE [c EXCEPT !.fs = [@ EXCEPT ![tmp_filename(out)] =
                              Some(File(@[1].content \o lines, @[1].mtime))]]

error_message(out) ==
    <<"A code change was detected in the generated file '", out,
      "' but the '--fail-on-write' option was used.">>

\* _commit writing the output also when the content is the same
_commit_always_writes(c, out, skip_write_if_same, fail_on_write) ==
    LET c1 == _write(c, out, <<Blank>>)
        compare == _compare_files(c1.fs, out)
        c2 == report(c1, NOTE, <<"Generated: ", "{}">>, << <<out>> >>)
        c3 == IF fail_on_write
              THEN report(remove(c2, tmp_filename(out)), ERROR,
                          error_message(out) \o compare.differences, <<>>)
              ELSE c2
    IN  move(c3, tmp_filename(out), out)

\* CodeGenerator._commit (no format module)
_commit(c, out, skip_write_if_same, fail_on_write) ==
    LET c1 == _write(c, out, <<Blank>>)
        compare == _compare_files(c1.fs, out)
    IN  IF c.raised # None THEN c
        ELSE IF skip_write_if_same /\ exists(c1.fs, out) /\ compare.are_same
        THEN report(remove(touch(c1, out), tmp_filename(out)), VERBOSE,
                    <<"skipped writing: ", "{}">>, << <<out>> >>)
        ELSE LET c2 == report(c1, NOTE, <<"Generated: ", "{}">>, << <<out>> >>)
                 c3 == IF fail_on_write
                       THEN report(remove(c2, tmp_filename(out)), ERROR,
                                   error_message(out) \o compare.differences, <<>>)
                       ELSE c2
             IN  move(c3, tmp_filename(out), out)

\* the generated text of a binding: the copyright comment, then the code
render(years, body) == <<CopyrightLine(years)>> \o body

\* CppGenerator.generate / PyGenerator.generate: construct, render, commit
generate(c, out, body, today, skip_write_if_same, fail_on_write) ==
    IF c.raised # None THEN c
    ELSE LET years == copyright_year(c.fs, out, today)
         IN  _commit(_write(CodeGenerator(c, out), out, render(years, body)),
                     out, skip_write_if_same, fail_on_write)

\* write_includes: the input, the includes that exist, the tool's own files
write_includes(c, out_filename) ==
    write_file(c, out_filename,
               <<CodeLine(InFile)>>
               \o (IF exists(c.fs, DepFile) THEN <<CodeLine(DepFile)>> ELSE <<>>)
               \o <<CodeLine(ToolFile)>>)

\* is_output_up_to_date: the loop over the includes and the outputs
RECURSIVE check_includes(_, _, _, _, _)
check_includes(c, includes, outputs, k, j) ==
    IF k > Len(includes) THEN [c |-> c, ret |-> TRUE]
    ELSE IF ~exists(c.fs, includes[k])
    THEN [c |-> report(c, WARNING, <<"out-of-date: input ", "{}", " does not exist">>,
                       << <<includes[k]>> >>),
          ret |-> FALSE]
    ELSE IF j > Len(outputs) THEN check_includes(c, includes, outputs, k + 1, 1)
    ELSE LET c1 == report(c, VERBOSE, <<"checking ", "{}", " with ", "{}">>,
                          << <<includes[k]>>, <<outputs[j]>> >>)
         IN  IF c.fs[includes[k]][1].mtime > c.fs[outputs[j]][1].mtime
             THEN [c |-> report(c1, NOTE, <<"out-of-date: input ", "{}", " is newer than ",
                                            "{}">>,
                                << <<includes[k]>>, <<outputs[j]>> >>),
                   ret |-> FALSE]
             ELSE check_includes(c1, includes, outputs, k, j + 1)

\* an up-to-date check that looks at the manifest alone, not at outputs or timestamps
is_output_up_to_date_manifest_only(c, outputs, includes_filename) ==
    IF ~exists(c.fs, includes_filename)
    THEN [c |-> report(c, WARNING, <<"out-of-date: ", "{}", " does not exist!">>,
                       << <<includes_filename>> >>),
          ret |-> FALSE]
    ELSE [c |-> c, ret |-> TRUE]

is_output_up_to_date(c, outputs, includes_filename) ==
    IF ~exists(c.fs, includes_filename)
    THEN [c |-> report(c, WARNING, <<"out-of-date: ", "{}", " does not exist!">>,
                       << <<includes_filename>> >>),
          ret |-> FALSE]
    ELSE IF \E k \in 1..Len(outputs) : ~exists(c.fs, outputs[k])
    THEN LET k == CHOOSE k \in 1..Len(outputs) :
                      /\ ~exists(c.fs, outputs[k])
                      /\ \A j \in 1..(k - 1) : exists(c.fs, outputs[j])
         IN  [c |-> report(c, NOTE, <<"out-of-date: output ", "{}", " does not exist">>,
                           << <<outputs[k]>> >>),
              ret |-> FALSE]
    ELSE LET lines == Texts(c.fs[includes_filename][1].content)
             includes == SelectSeq(lines, LAMBDA ln : ln # "")
         IN  check_includes(c, includes, outputs, 1, 1)

----------------------------------------------------------------------------
(* Attributes (model.py): parsing an OMNI_ATTR annotation *)

MaxTokens == 2    \* tokens in one annotation
MaxStars == 2     \* leading '*' of a token's key

\* the options Attributes.__init__ sets, with the default None
NoneOptions == {"prefix", "count", "consumer", "count_of", "py_name"}

\* the options Attributes.__init__ sets, with the default False
FalseOptions ==
    {"not_null", "input", "output", "no_py", "no_api", "flag", "constant", "c_str",
     "not_prop", "allow_unsafe_abi_in_test", "init_arg", "vec", "opaque", "py_get",
     "py_set", "py_not_prop", "bind_class", "ref", "no_acquire", "throw_result",
     "returned", "throw_if_null"}

OptionNames == NoneOptions \cup FalseOptions

\* the value of the pointee attribute that refers to the next record of the chain
AttributesObject == "<Attributes>"

\* Attributes(None): every option at its default, no pointee. Values are given by
\* their repr: "None", "False", "True", or the text right of '='.
NewAttributes ==
    [key \in OptionNames \cup {"pointee"} |->
        IF key \in FalseOptions THEN "False" ELSE "None"]

\* hasattr(attributes, key) for a record: the instance attributes __init__ set
hasattr(record, key) == key \in DOMAIN record

ValueError(message) == [type |-> "ValueError", text |-> message, diagnostic |-> None]

\* setting or reading an attribute of a value that is no record (True, a string)
NoRecordError ==
    [type |-> "AttributeError", text |-> <<"'bool' object has no attribute">>,
     diagnostic |-> None]

\* the key of a token without its leading '*', and their number
RECURSIVE strip_stars(_, _)
strip_stars(key, level) ==
    IF key # <<>> /\ Head(key) = "*" THEN strip_stars(Tail(key), level + 1)
    ELSE [key |-> IF key = <<>> THEN "" ELSE Head(key), level |-> level]

\* _get_key_and_attributes, the loop over the levels: from record at, remaining levels
\* down, creating the records that are missing. at = 0 says the walk ended on a value
\* that is no record.
RECURSIVE descend(_, _, _)
descend(chain, at, remaining) ==
    IF remaining = 0 THEN [chain |-> chain, at |-> at, raised |-> None]
    ELSE IF at = 0 THEN [chain |-> chain, at |-> 0, raised |-> Some(NoRecordError)]
    ELSE IF chain[at].pointee \in {"None", "False", ""}
    THEN descend(Append([chain EXCEPT ![at].pointee = AttributesObject], NewAttributes),
                 at + 1, remaining - 1)
    ELSE IF chain[at].pointee = AttributesObject
    THEN descend(chain, at + 1, remaining - 1)
    ELSE descend(chain, 0, remaining - 1)

\* _get_key_and_attributes always answering with the root record
_get_key_and_attributes_root(chain, left) ==
    [key |-> strip_stars(left, 0).key, chain |-> chain, at |-> 1, raised |-> None]

_get_key_and_attributes(chain, left) ==
    [key |-> strip_stars(left, 0).key]
        @@ descend(chain, 1, strip_stars(left, 0).level)

\* setattr(attributes, key, value) on record at of the chain; a pointee that is set
\* to a value no longer refers to the records below
setattr(chain, at, key, value) ==
    IF key = "pointee" THEN [SubSeq(chain, 1, at) EXCEPT ![at].pointee = value]
    ELSE [chain EXCEPT ![at][key] = value]

\* the names 'in', 'out' and 'return' are kept under
Renamed == [in |-> "input", out |-> "output", return |-> "returned"]

\* Attributes._parse, the body of the loop for one token [left, value]: the records
\* after it and the exception it raised
parse_token(chain, token) ==
    LET value == IF token.value = None THEN "True" ELSE token.value[1]
        r == _get_key_and_attributes(chain, token.left)
    IN  IF r.raised # None THEN [chain |-> r.chain, raised |-> r.raised]
        ELSE IF r.at # 0 /\ hasattr(r.chain[r.at], r.key)
        THEN [chain |-> setattr(r.chain, r.at, r.key, value), raised |-> None]
        ELSE IF r.key \in DOMAIN Renamed
        THEN IF r.at = 0 THEN [chain |-> r.chain, raised |-> Some(NoRecordError)]
             ELSE [chain |-> setattr(r.chain, r.at, Renamed[r.key], value),
                   raised |-> None]
        ELSE [chain |-> r.chain,
              raised |-> Some(ValueError(<<"unknown OMNI_ATTR: '", r.key, "'">>))]

\* the keys annotations are written with, and the value right of '=' for those that take one
TokenKeys == {"in", "count", "not_null", "bogus", "pointee"}

Stars == [k \in 0..MaxStars |-> [j \in 1..k |-> "*"]]

Tokens ==
    {[left |-> Stars[k] \o <<key>>, value |-> IF key = "count" THEN Some("len") ELSE None] :
         k \in 0..MaxStars, key \in TokenKeys}

Spellings == UNION {[1..n -> Tokens] : n \in 0..MaxTokens}

AttrOnly ==
    UNCHANGED <<diagVars, cliVars, abiVars, declVars, hierVars, cmpVars, lazyVars,
                propVars>>

AttrInit ==
    /\ DiagIdle
    /\ PropIdle
    /\ DeclIdle
    /\ HierIdle
    /\ CmpIdle
    /\ LazyIdle
    /\ spelling \in Spellings
    /\ tokens_done = 0
    /\ attributes = <<>>
    /\ attr_pre = <<>>
    /\ attr_exc = None

\* Attributes.__init__ up to the loop of _parse: the defaults, then the match of the
\* spelling against "^omni_attr:(.+)$"
AttributesInit ==
    /\ AttrOnly
    /\ attributes = <<>>
    /\ attr_exc = None
    /\ attributes' = <<NewAttributes>>
    /\ attr_pre' = <<NewAttributes>>
    /\ attr_exc' = IF spelling = <<>>
                   THEN Some(ValueError(<<"unknown omni attr format: ", "omni_attr:">>))
                   ELSE None
    /\ UNCHANGED <<spelling, tokens_done>>

\* one turn of the loop over the tokens
ParseToken ==
    /\ AttrOnly
    /\ attributes # <<>>
    /\ attr_exc = None
    /\ tokens_done < Len(spelling)
    /\ LET r == parse_token(attributes, spelling[tokens_done + 1])
       IN  /\ attributes' = r.chain
           /\ attr_exc' = r.raised
    /\ attr_pre' = attributes
    /\ tokens_done' = tokens_done + 1
    /\ UNCHANGED spelling

AttrNext == AttributesInit \/ ParseToken

SpecAttr == AttrInit /\ [][AttrNext]_vars

----------------------------------------------------------------------------
(* compare_files (generate/__init__.py) on any two files *)

MaxLines == 2    \* lines of a compared file

\* the lines files are made of: copyright comments of two years and two code lines
Lines == {CopyrightLine(<<OldYear>>), CopyrightLine(<<Today>>), CodeLine("int a;"),
          CodeLine("int b;")}

Contents == UNION {[1..n -> Lines] : n \in 0..MaxLines}

CmpOnly ==
    UNCHANGED <<diagVars, cliVars, abiVars, attrVars, declVars, hierVars, lazyVars,
                propVars>>

CmpInit ==
    /\ DiagIdle
    /\ PropIdle
    /\ AttrIdle
    /\ DeclIdle
    /\ HierIdle
    /\ LazyIdle
    /\ \E current \in Contents, generated \in Contents :
           cmp_fs = [name \in {ApiFile, tmp_filename(ApiFile)} |->
                        IF name = ApiFile THEN Some(File(current, 0))
                        ELSE Some(File(generated, 1))]
    /\ compared = None

\* compare_files(current_filename, generated_filename)
CompareFiles ==
    /\ CmpOnly
    /\ compared = None
    /\ compared' = Some(compare_files(cmp_fs, ApiFile, tmp_filename(ApiFile)))
    /\ UNCHANGED cmp_fs

CmpNext == CompareFiles

SpecCmp == CmpInit /\ [][CmpNext]_vars

----------------------------------------------------------------------------
(* Lazy (_util.py) *)

MaxCalls == 4    \* calls made on one Lazy

\* what the loader raises when it fails
LoadError == [type |-> "RuntimeError", text |-> <<"load failed">>, diagnostic |-> None]

\* the result of a call: the cache after it, the loader calls so far, what the call
\* returned, and the exception it raised instead
LazyResult(value, n, ret, raised) ==
    [value |-> value, loads |-> n, ret |-> ret, raised |-> raised]

\* Lazy.get calling the loader whether a value is cached or not
Lazy_get_reloads(value, n, fails) ==
    IF fails THEN LazyResult(value, n + 1, None, Some(LoadError))
    ELSE LazyResult(Some(n + 1), n + 1, Some(n + 1), None)

\* Lazy.get: the loader is a counter's next(), its n-th call returns n; fails says
\* whether the loader raises if it is called
Lazy_get(value, n, fails) ==
    IF value = None
    THEN IF fails THEN LazyResult(None, n + 1, None, Some(LoadError))
         ELSE LazyResult(Some(n + 1), n + 1, Some(n + 1), None)
    ELSE LazyResult(value, n, value, None)

Lazy_set(value, n, v) == LazyResult(Some(v), n, None, None)

Lazy_clear(value, n) == LazyResult(None, n, None, None)

\* the record of a call in the history
Call(op, arg, r) ==
    [op |-> op, arg |-> arg, ret |-> r.ret, raised |-> r.raised, loaded |-> r.loads # loads]

LazyOnly ==
    UNCHANGED <<diagVars, cliVars, abiVars, attrVars, declVars, hierVars, cmpVars,
                propVars>>

\* Lazy(counter.next)
LazyInit ==
    /\ DiagIdle
    /\ PropIdle
    /\ AttrIdle
    /\ DeclIdle
    /\ HierIdle
    /\ CmpIdle
    /\ lazy_value = None
    /\ loads = 0
    /\ calls = <<>>

Called(op, arg, r) ==
    /\ LazyOnly
    /\ Len(calls) < MaxCalls
    /\ lazy_value' = r.value
    /\ loads' = r.loads
    /\ calls' = Append(calls, Call(op, arg, r))

Get(fails) == Called("get", None, Lazy_get(lazy_value, loads, fails))

Set(v) == Called("set", Some(v), Lazy_set(lazy_value, loads, v))

Clear == Called("clear", None, Lazy_clear(lazy_value, loads))

LazyNext ==
    \/ \E fails \in BOOLEAN : Get(fails)
    \/ \E v \in {-9, -8} : Set(v)
    \/ Clear

SpecLazy == LazyInit /\ [][LazyNext]_vars

----------------------------------------------------------------------------
(* ABI safety of types (extract.py) *)

\* a type, outermost first: "*" a pointer to, "&" a reference to, then void, int, char,
\* the name of a class, or Opaque, a struct that is declared and not defined
is_void(t) == Head(t) = "void"

is_pointer(t) == Head(t) = "*"

get_pointee(t) == Tail(t)

is_char(t) == Head(t) = "char"

is_opaque_struct(t) == Head(t) = "Opaque"

is_opaque_struct_pointer(t) == is_opaque_struct(get_pointee(t))

\* the members of a class, in declaration order
FieldDecl(type, access, unsafe) ==
    [kind |-> "field", type |-> type, access |-> access, virtual |-> FALSE,
     unsafe |-> unsafe]

MethodDecl(virtual) ==
    [kind |-> "method", type |-> <<>>, access |-> "public", virtual |-> virtual,
     unsafe |-> FALSE]

\* a class: its recorded bases, its members, whether it is a trivial class
ClassDecl(bases, children, trivial) ==
    [bases |-> bases, children |-> children, trivial |-> trivial]

IObject == "omni::core::IObject_abi"

\* the classes of the input header
ClassNames == {"Pod", "Ctor", "Virt", "Derived", "Mixed", "Holder", "Opt", IObject, "IFoo"}

usr2info ==
    [name \in ClassNames |->
        CASE name = "Pod" ->
                 ClassDecl(<<>>, <<FieldDecl(<<"int">>, "public", FALSE)>>, TRUE)
          [] name = "Ctor" ->
                 ClassDecl(<<>>, <<MethodDecl(FALSE), FieldDecl(<<"int">>, "public", FALSE)>>,
                           FALSE)
          [] name = "Virt" -> ClassDecl(<<>>, <<MethodDecl(TRUE)>>, FALSE)
          [] name = "Derived" ->
                 ClassDecl(<<"Pod">>, <<FieldDecl(<<"int">>, "public", FALSE)>>, TRUE)
          [] name = "Mixed" ->
                 ClassDecl(<<>>, <<FieldDecl(<<"int">>, "public", FALSE),
                                   FieldDecl(<<"int">>, "private", FALSE)>>, TRUE)
          [] name = "Holder" ->
                 ClassDecl(<<>>, <<MethodDecl(FALSE),
                                   FieldDecl(<<"*", "Virt">>, "public", FALSE)>>, FALSE)
          [] name = "Opt" ->
                 ClassDecl(<<>>, <<MethodDecl(FALSE),
                                   FieldDecl(<<"Virt">>, "public", TRUE)>>, FALSE)
          [] name = IObject -> ClassDecl(<<>>, <<MethodDecl(TRUE)>>, FALSE)
          [] OTHER -> ClassDecl(<<IObject>>, <<MethodDecl(TRUE)>>, FALSE)]

NoDecl == "NO_DECL_FOUND"

\* t.get_declaration(): the class a type names, no declaration for the other types
get_declaration(t) == IF Head(t) \in ClassNames THEN Head(t) ELSE NoDecl

get_children(cursor) == IF cursor \in ClassNames THEN usr2info[cursor].children ELSE <<>>

\* Hierarchy._get_hierarchy for classes the index recorded
RECURSIVE get_hierarchy(_)
get_hierarchy(node) ==
    IF node \in ClassNames /\ Len(usr2info[node].bases) = 1
    THEN <<node>> \o get_hierarchy(usr2info[node].bases[1])
    ELSE <<node>>

is_interface(cursor) ==
    LET chain == get_hierarchy(cursor)
    IN  chain[Len(chain)] = IObject

is_interface_pointer(t) == is_pointer(t) /\ is_interface(get_declaration(get_pointee(t)))

HasFields(name) ==
    \E k \in 1..Len(usr2info[name].children) : usr2info[name].children[k].kind = "field"

\* the front end's std::is_standard_layout and std::is_trivial of a class
RECURSIVE cxx_standard_layout(_)
cxx_standard_layout(name) ==
    LET d == usr2info[name]
        chain == get_hierarchy(name)
    IN  /\ \A k \in 1..Len(d.children) :
              /\ ~d.children[k].virtual
              /\ \A j \in 1..Len(d.children) :
                     (d.children[k].kind = "field" /\ d.children[j].kind = "field") =>
                         d.children[k].access = d.children[j].access
              /\ (d.children[k].kind = "field" /\ Head(d.children[k].type) \in ClassNames) =>
                     cxx_standard_layout(Head(d.children[k].type))
        /\ \A k \in 1..Len(d.bases) : cxx_standard_layout(d.bases[k])
        /\ Cardinality({k \in 1..Len(chain) : HasFields(chain[k])}) <= 1

RECURSIVE cxx_trivial(_)
cxx_trivial(name) ==
    LET d == usr2info[name]
    IN  /\ d.trivial
        /\ \A k \in 1..Len(d.children) :
              /\ ~d.children[k].virtual
              /\ (d.children[k].kind = "field" /\ Head(d.children[k].type) \in ClassNames) =>
                     cxx_trivial(Head(d.children[k].type))
        /\ \A k \in 1..Len(d.bases) : cxx_trivial(d.bases[k])

\* t.get_canonical().is_pod(): scalars and pointers are, void and references are not,
\* a class is when it is trivial and of standard layout
is_pod(t) ==
    IF Head(t) \in ClassNames THEN cxx_trivial(Head(t)) /\ cxx_standard_layout(Head(t))
    ELSE Head(t) \in {"int", "char", "*"}

\* the outcome of a check: its verdict and the diagnostics it reported, in order
Checked(ok, reported) == [ok |-> ok, reported |-> reported]

Diag(level, message, fargs) == [level |-> level, message |-> message, args |-> fargs]

\* is_standard_layout: the loop over the chain from the root, i counted from 0, and
\* over the members of each class
ChainMembers(chain) ==
    LET F[n \in 0..Len(chain)] ==
            IF n = 0 THEN <<>>
            ELSE LET i == Len(chain) - n
                     kids == get_children(chain[i + 1])
                 IN  F[n - 1] \o [k \in 1..Len(kids) |-> [i |-> i, child |-> kids[k]]]
    IN  F[Len(chain)]

\* a failed check with one more diagnostic reported after its own
Fail(r, diag) == IF r.ok THEN r ELSE Checked(FALSE, r.reported \o <<diag>>)

\* a check, and when it passes the check that follows it
Then(r, r2) == IF ~r.ok THEN r ELSE Checked(r2.ok, r.reported \o r2.reported)

RECURSIVE is_abi_safe_type(_, _)
RECURSIVE is_standard_layout(_)
RECURSIVE field_type_walk(_, _)
RECURSIVE members_walk(_, _, _, _)

\* the check of a field's own type only, not of what it points to
field_type_only(child, t) ==
    Fail(is_abi_safe_type(child.unsafe, t), Diag(WARNING, <<"is not ABI safe">>, <<>>))

\* is_standard_layout, lines 85-94: the field's type, then what it points to
field_type_walk(child, t) ==
    Then(Fail(is_abi_safe_type(child.unsafe, t), Diag(WARNING, <<"is not ABI safe">>, <<>>)),
         IF is_pointer(t) /\ ~is_interface_pointer(t)
         THEN field_type_walk(child, get_pointee(t))
         ELSE Checked(TRUE, <<>>))

members_walk(items, k, chain_with_data_members, member_access_level) ==
    IF k > Len(items) THEN Checked(TRUE, <<>>)
    ELSE IF items[k].child.kind = "field"
    THEN IF chain_with_data_members > items[k].i
         THEN Checked(FALSE, <<Diag(WARNING,
                  <<"declaring data members in a subclass of a class with data members is not ABI safe">>,
                  <<>>)>>)
         ELSE IF member_access_level # "none" /\ member_access_level # items[k].child.access
         THEN Checked(FALSE, <<Diag(WARNING,
                  <<"all members must have same access level to be ABI safe: expected: ",
                    "{}", " got: ", "{}">>,
                  << <<member_access_level>>, <<items[k].child.access>> >>)>>)
         ELSE Then(field_type_walk(items[k].child, items[k].child.type),
                   members_walk(items, k + 1, items[k].i, items[k].child.access))
    ELSE IF items[k].child.virtual
    THEN Checked(FALSE, <<Diag(WARNING, <<"virtual methods are not ABI safe">>, <<>>)>>)
    ELSE members_walk(items, k + 1, chain_with_data_members, member_access_level)

is_standard_layout(t) ==
    members_walk(ChainMembers(get_hierarchy(get_declaration(t))), 1, 0, "none")

is_abi_safe_type(allow_unsafe_abi, t) ==
    IF allow_unsafe_abi \/ is_pod(t) \/ is_void(t) THEN Checked(TRUE, <<>>)
    ELSE is_standard_layout(t)

\* the reporter i takes the diagnostics a check reported, on the cursor's location
RECURSIVE emit_each(_, _, _)
emit_each(c, i, reported) ==
    IF reported = <<>> \/ c.raised # None THEN c
    ELSE LET r == emit(c.stack, i, Head(reported).level, Some(Loc1),
                       Head(reported).message, Head(reported).args)
         IN  emit_each([c EXCEPT !.stack = r.stack, !.output = @ \o r.printed,
                                 !.raised = r.raised],
                       i, Tail(reported))

----------------------------------------------------------------------------
(* Method and Parameter (model.py) *)

MaxParams == 2      \* parameters of the method

\* a parameter: its type, per pointer level whether what it points to is const and
\* which of in, out and c_str its OMNI_ATTR sets there, and whether it allows unsafe ABI
\* in tests; the other options of the OMNI_ATTR are not set
ParmDecl(type, const, attrs, unsafe) ==
    [type |-> type, const |-> const, attrs |-> attrs, unsafe |-> unsafe]

ParmDecls ==
    {ParmDecl(<<"int">>, <<>>, <<>>, FALSE),
     ParmDecl(<<"*", "int">>, <<TRUE>>, <<{"in"}>>, FALSE),
     ParmDecl(<<"*", "int">>, <<FALSE>>, <<{}>>, FALSE),
     ParmDecl(<<"*", "Virt">>, <<TRUE>>, <<{"in"}>>, FALSE),
     ParmDecl(<<"*", "IFoo">>, <<FALSE>>, <<{}>>, FALSE)}

\* the '*' that prefix an option's name in a message, one per level passed
indirection(level) == [k \in 1..(level - 1) |-> "*"]

Tagged(ind, name, text) == Diag(ERROR, <<"'">> \o ind \o <<name, text>>, <<>>)

\* _validate_attributes, lines 274-280: the rules of c_str at a pointer level
c_str_rules(attr, const, pointee, ind) ==
    IF "c_str" \notin attr THEN <<>>
    ELSE (IF ~is_char(pointee)
          THEN <<Diag(ERROR, <<"'", "{}", "c_str' OMNI_ATTR must be on a char pointer">>,
                      <<ind>>)>>
          ELSE <<>>)
         \o (IF "out" \in attr
             THEN <<Tagged(ind, "c_str", "' OMNI_ATTR cannot be combined with 'out'")>>
             ELSE <<>>)
         \o (IF ~const THEN <<Tagged(ind, "c_str", "' OMNI_ATTR must be on a const pointer")>>
             ELSE <<>>)

\* _validate_attributes, lines 290-297: a pointer to an opaque struct
opaque_rules(attr, ind) ==
    (IF "in" \in attr THEN <<Tagged(ind, "in", "' OMNI_ATTR must not be on opaque types")>>
     ELSE <<>>)
    \o (IF "out" \in attr
        THEN <<Tagged(ind, "out", "' OMNI_ATTR must not be on opaque types")>>
        ELSE <<>>)
    \o (IF "c_str" \in attr
        THEN <<Tagged(ind, "c_str", "' OMNI_ATTR must not be on opaque types")>>
        ELSE <<>>)

\* in_out_rules without the test for a pointer that has none of in, out and c_str
in_out_rules_lenient(attr, const, ind) ==
    IF "in" \in attr /\ "out" \notin attr
    THEN IF ~const THEN <<Tagged(ind, "in", "' OMNI_ATTR must be on a const pointer")>>
         ELSE <<>>
    ELSE IF "out" \in attr
    THEN IF const THEN <<Tagged(ind, "out", "' OMNI_ATTR must be on a non-const pointer")>>
         ELSE <<>>
    ELSE <<>>

\* _validate_attributes, lines 299-312: the in / out rules of any other pointer
in_out_rules(attr, const, ind) ==
    IF "in" \in attr /\ "out" \notin attr
    THEN IF ~const THEN <<Tagged(ind, "in", "' OMNI_ATTR must be on a const pointer")>>
         ELSE <<>>
    ELSE IF "out" \in attr
    THEN IF const THEN <<Tagged(ind, "out", "' OMNI_ATTR must be on a non-const pointer")>>
         ELSE <<>>
    ELSE IF "c_str" \notin attr
    THEN <<Diag(ERROR,
                <<"pointer must have '">> \o ind \o <<"c_str', '">> \o ind \o <<"in', and/or '">>
                \o ind \o <<"out' OMNI_ATTR">>,
                <<>>)>>
    ELSE <<>>

\* Parameter._validate_attributes: the loop over the pointer levels (ABI safety of the
\* type at the level, then the rules of a pointer that is not an interface's), one
\* record of attributes per level
RECURSIVE _validate_attributes(_, _, _)
_validate_attributes(p, t, level) ==
    LET attr == IF level <= Len(p.attrs) THEN p.attrs[level] ELSE {}
        const == level <= Len(p.const) /\ p.const[level]
    IN  Fail(is_abi_safe_type(p.unsafe /\ level = 1, t),
             Diag(ERROR, <<"type is not ABI safe: ", "{}">>, <<t>>)).reported
        \o (IF is_interface_pointer(t)
            THEN IF "in" \in attr \/ "out" \in attr
                 THEN <<Diag(ERROR, <<"interface pointers are implicitly 'in' and 'out'">>,
                             <<>>)>>
                 ELSE <<>>
            ELSE IF is_pointer(t)
            THEN c_str_rules(attr, const, get_pointee(t), indirection(level))
                 \o (IF is_opaque_struct_pointer(t)
                     THEN opaque_rules(attr, indirection(level))
                     ELSE in_out_rules(attr, const, indirection(level))
                          \o _validate_attributes(p, get_pointee(t), level + 1))
            ELSE <<>>)

\* Parameter.__init__ validating after the block was left
subreporter_exit_then_validate(c) ==
    LET e == IF c.raised # None THEN c.raised ELSE validate(c.stack, Len(c.stack))
        r == block_exit(c.stack, c.raised)
    IN  [c EXCEPT !.stack = r.stack, !.output = @ \o r.printed, !.raised = e]

\* Parameter.__init__, lines 240-242: validate() in the block, then the block's exit
subreporter_exit(c) ==
    LET e == IF c.raised # None THEN c.raised ELSE validate(c.stack, Len(c.stack))
        r == block_exit(c.stack, e)
    IN  [c EXCEPT !.stack = r.stack, !.output = @ \o r.printed, !.raised = e]

\* Parameter.__init__: the "checking ABI safety" block on the reporter, the validation
\* in it, validate(), and the block's exit
Parameter(c, p) ==
    IF c.raised # None THEN c
    ELSE subreporter_exit(
             emit_each([c EXCEPT !.stack = Append(@, NewReporter("block", Len(c.stack),
                                     DiagnosticMessage(VERBOSE, Some(Loc1),
                                                       <<"checking ABI safety">>)))],
                       Len(c.stack) + 1,
                       _validate_attributes(p, p.type, 1)))

\* a method of an interface: what its declaration says, its result type, its parameters
ReturnTypes ==
    {<<"void">>, <<"int">>, <<"*", "int">>, <<"&", "Virt">>, <<"*", "*", "Virt">>}
    \cup {<<name>> : name \in ClassNames}
    \cup {<<"*", name>> : name \in ClassNames}

ParmSeqs == UNION {[1..n -> ParmDecls] : n \in 0..MaxParams}

MethodDecls ==
    {m \in [name_abi : BOOLEAN, pure : BOOLEAN, noexcept : BOOLEAN, protected : BOOLEAN,
            unsafe : BOOLEAN, result : ReturnTypes, params : ParmSeqs] :
        Cardinality({f \in {"name_abi", "pure", "noexcept", "protected"} : ~m[f]}) <= 1}

Error(message) == Diag(ERROR, message, <<>>)

\* Method.__init__, lines 505-526: the checks of the declaration and of the result type
MethodChecks(m) ==
    (IF ~m.name_abi THEN <<Error(<<"interface ABI methods must end in '_abi'">>)>>
     ELSE <<>>)
    \o (IF ~m.pure THEN <<Error(<<"method must be pure virtual">>)>> ELSE <<>>)
    \o (IF ~m.noexcept THEN <<Error(<<"noexcept must be specified">>)>> ELSE <<>>)
    \o Fail(is_abi_safe_type(m.unsafe, m.result),
            Error(<<"return type is not ABI safe">>)).reported
    \o (IF ~m.protected THEN <<Error(<<"ABI method must be protected">>)>> ELSE <<>>)

AbiInit ==
    /\ UnitIdle
    /\ method \in MethodDecls
    /\ apc = "new"
    /\ parameters = 0
    /\ argv = NoArgs
    /\ fs = <<>>
    /\ fs0 = <<>>
    /\ fsLog = <<>>
    /\ clock = 0
    /\ pc = "idle"
    /\ run = <<>>
    /\ runs = <<>>
    /\ exitCode = None
    /\ escaped = None
    /\ stack = <<NewReporter("text", 0, NoMsg)>>
    /\ output = <<>>
    /\ exc = None
    /\ rootScope = FALSE
    /\ ops = 0
    /\ accepted = << <<>> >>
    /\ last = Last("init", 0, IGNORED, None, None, <<>>, <<>>)

AbiOnly == UNCHANGED <<cliVars, rootScope, ops, accepted, last, unitVars>>

\* Method.__init__ up to the parameters
MethodInit ==
    /\ AbiOnly
    /\ apc = "new"
    /\ LET c == emit_each(Ctx(stack, output, <<>>, <<>>, 0), 1, MethodChecks(method))
       IN  /\ stack' = c.stack
           /\ output' = c.output
    /\ apc' = "parameters"
    /\ UNCHANGED <<method, parameters, exc>>

\* Method.__init__, lines 535-536: the next Parameter is built and appended, or its
\* DiagnosticException leaves Method.__init__
ParameterInit ==
    /\ AbiOnly
    /\ apc = "parameters"
    /\ parameters < Len(method.params)
    /\ LET c == Parameter(Ctx(stack, output, <<>>, <<>>, 0), method.params[parameters + 1])
       IN  /\ stack' = c.stack
           /\ output' = c.output
           /\ exc' = c.raised
           /\ apc' = IF c.raised = None THEN "parameters" ELSE "raised"
           /\ parameters' = IF c.raised = None THEN parameters + 1 ELSE parameters
    /\ UNCHANGED method

\* Method.__init__ returns the method
MethodBuilt ==
    /\ AbiOnly
    /\ apc = "parameters"
    /\ parameters = Len(method.params)
    /\ apc' = "built"
    /\ UNCHANGED <<method, parameters, stack, output, exc>>

AbiNext ==
    \/ MethodInit
    \/ ParameterInit
    \/ MethodBuilt

SpecAbi == AbiInit /\ [][AbiNext]_vars

MaxLevels == 2      \* pointer levels of a parameter's type

\* what an OMNI_ATTR may set at one level
Tags == SUBSET {"in", "out", "c_str"}

\* the types with n pointer levels: pointers to int, char, an opaque struct or an
\* interface, int and char themselves
TypesOf(n) ==
    {[k \in 1..(n + 1) |-> IF k <= n THEN "*" ELSE base] :
        base \in IF n = 0 THEN {"int", "char"} ELSE {"int", "char", "Opaque", "IFoo"}}

\* parameters of every type with every choice of const and of tags at every level
AnyParmDecls ==
    UNION {{ParmDecl(type, const, attrs, FALSE) :
               type \in TypesOf(n), const \in [1..n -> BOOLEAN], attrs \in [1..n -> Tags]} :
           n \in 0..MaxLevels}

\* a method that passes the checks of Method.__init__, with one parameter
MethodOf(p) ==
    [name_abi |-> TRUE, pure |-> TRUE, noexcept |-> TRUE, protected |-> TRUE,
     unsafe |-> FALSE, result |-> <<"void">>, params |-> <<p>>]

ParmInit ==
    /\ UnitIdle
    /\ \E p \in AnyParmDecls : method = MethodOf(p)
    /\ apc = "new"
    /\ parameters = 0
    /\ argv = NoArgs
    /\ fs = <<>>
    /\ fs0 = <<>>
    /\ fsLog = <<>>
    /\ clock = 0
    /\ pc = "idle"
    /\ run = <<>>
    /\ runs = <<>>
    /\ exitCode = None
    /\ escaped = None
    /\ stack = <<NewReporter("text", 0, NoMsg)>>
    /\ output = <<>>
    /\ exc = None
    /\ rootScope = FALSE
    /\ ops = 0
    /\ accepted = << <<>> >>
    /\ last = Last("init", 0, IGNORED, None, None, <<>>, <<>>)

ParmNext ==
    \/ MethodInit
    \/ ParameterInit
    \/ MethodBuilt

SpecParm == ParmInit /\ [][ParmNext]_vars


----------------------------------------------------------------------------
(* Hierarchy (extract.py): class chains through template specializations *)

MaxTemplateParams == 2   \* parameters of a class template

\* cursors: a class by its name; the specialization of a class template for some
\* argument types; a class template; the cursor of a type without declaration
Class(name) == [kind |-> "CLASS_DECL", name |-> name, template |-> None, args |-> <<>>]

Specialization(template, args) ==
    [kind |-> "CLASS_DECL", name |-> template, template |-> Some(template), args |-> args]

ClassTemplate(name) ==
    [kind |-> "CLASS_TEMPLATE", name |-> name, template |-> None, args |-> <<>>]

TemplateRef(name) ==
    [kind |-> "TEMPLATE_REF", name |-> name, template |-> None, args |-> <<>>]

NoDeclFound == [kind |-> "NO_DECL_FOUND", name |-> "", template |-> None, args |-> <<>>]

\* type.get_declaration() of a type given by its spelling
type_declaration(index, name) ==
    IF name \in DOMAIN index.usr2info THEN Class(name) ELSE NoDeclFound

\* the positions of the template parameters spelled as the base is
SpelledAs(params, name) == {i \in 1..Len(params) : params[i] = name}

\* _get_template_base, lines 380-386: the template's inputs copied to the base
\* template's arguments, each taken at the position of the argument
base_template_input(template, template_input) ==
    [i \in 1..Len(template.base[1].args) |->
        IF SpelledAs(template.params, template.base[1].args[i]) # {}
        THEN template_input[i]
        ELSE template.base[1].args[i]]

\* _get_template_base that does not look into specializations
_get_template_base_plain(index, node, template_input) ==
    IF node.kind = "CLASS_DECL" /\ node.template = None THEN Some(node) ELSE None

\* Hierarchy._get_template_base: the cursor of the base class, None when there is none
RECURSIVE _get_template_base(_, _, _)
_get_template_base(index, node, template_input) ==
    IF node.kind = "CLASS_DECL"
    THEN IF node.template # None
         THEN _get_template_base(index, ClassTemplate(node.template[1]), node.args)
         ELSE Some(node)
    ELSE IF node.kind = "TEMPLATE_REF"
    THEN _get_template_base(index, ClassTemplate(node.name), template_input)
    ELSE IF node.kind = "CLASS_TEMPLATE"
    THEN LET template == index.templates[node.name]
         IN  IF template.base = None THEN None
             ELSE IF SpelledAs(template.params, template.base[1].spelling) # {}
             THEN Some(type_declaration(index,
                      template_input[CHOOSE i \in SpelledAs(template.params,
                                                            template.base[1].spelling) :
                                         TRUE]))
             ELSE IF template.base[1].child = "TYPE_REF"
             THEN _get_template_base(index, Class(template.base[1].spelling), <<>>)
             ELSE _get_template_base(index, TemplateRef(template.base[1].spelling),
                                     base_template_input(template, template_input))
    ELSE None

\* _get_hierarchy that goes on with the first base of a class with several bases
RECURSIVE _get_hierarchy_first_base(_, _, _)
_get_hierarchy_first_base(index, node, out) ==
    IF node.template = None /\ node.name \in DOMAIN index.usr2info
    THEN IF Len(index.usr2info[node.name]) >= 1
         THEN _get_hierarchy_first_base(index, index.usr2info[node.name][1],
                                        Append(out, node))
         ELSE Append(out, node)
    ELSE IF _get_template_base(index, node, <<>>) \notin {None, Some(node)}
    THEN _get_hierarchy_first_base(index, _get_template_base(index, node, <<>>)[1],
                                   Append(out, node))
    ELSE Append(out, node)

\* Hierarchy._get_hierarchy: the list out with the chain from node on appended
RECURSIVE _get_hierarchy(_, _, _)
_get_hierarchy(index, node, out) ==
    IF node.template = None /\ node.name \in DOMAIN index.usr2info
    THEN IF Len(index.usr2info[node.name]) = 1
         THEN _get_hierarchy(index, index.usr2info[node.name][1], Append(out, node))
         ELSE Append(out, node)
    ELSE IF _get_template_base(index, node, <<>>) \notin {None, Some(node)}
    THEN _get_hierarchy(index, _get_template_base(index, node, <<>>)[1], Append(out, node))
    ELSE Append(out, node)

\* Hierarchy.is_interface on the list get_hierarchy returned
chain_is_interface(out) == out[Len(out)] = Class(IObject)

\* the translation units: class C derives from Wrapper<cargs>, class D from the root
\* class, class E from Outer<eargs>, class F from Pair<cargs>; template Wrapper derives
\* from base (nothing, one of its parameters, or a class); template Outer<A...> derives
\* from Wrapper<A...> with its parameters in reverse order; template Pair<A...> derives
\* from Single<the last of A...>, template Single<B1> from B1; class Plain derives
\* from the two classes Left and Right
ParamNames == <<"T1", "T2", "T3", "T4">>

Reverse(seq) == [i \in 1..Len(seq) |-> seq[Len(seq) + 1 - i]]

TemplateBases(n) ==
    {None, Some([spelling |-> "Plain", child |-> "TYPE_REF", args |-> <<>>])}
        \cup {Some([spelling |-> ParamNames[i], child |-> "TYPE_REF", args |-> <<>>]) :
                  i \in 1..n}

TranslationUnit(root, cargs, base) ==
    [usr2info |-> [name \in {"C", "D", "E", "F", IObject, "Plain", "Left", "Right"} |->
                      CASE name = "C" -> <<Specialization("Wrapper", cargs)>>
                        [] name = "D" -> <<Class(root)>>
                        [] name = "E" -> <<Specialization("Outer", Reverse(cargs))>>
                        [] name = "F" -> <<Specialization("Pair", cargs)>>
                        [] name = "Plain" -> <<Class("Left"), Class("Right")>>
                        [] OTHER -> <<>>],
     templates |-> [name \in {"Wrapper", "Outer", "Pair", "Single"} |->
                       CASE name = "Wrapper" ->
                                [params |-> SubSeq(ParamNames, 1, Len(cargs)), base |-> base]
                         [] name = "Outer" ->
                                [params |-> SubSeq(ParamNames, 1, Len(cargs)),
                                 base |-> Some([spelling |-> "Wrapper",
                                                child |-> "TEMPLATE_REF",
                                                args |-> Reverse(SubSeq(ParamNames, 1,
                                                                        Len(cargs)))])]
                         [] name = "Pair" ->
                                [params |-> SubSeq(ParamNames, 1, Len(cargs)),
                                 base |-> Some([spelling |-> "Single",
                                                child |-> "TEMPLATE_REF",
                                                args |-> <<ParamNames[Len(cargs)]>>])]
                         [] OTHER ->
                                [params |-> <<"B1">>,
                                 base |-> Some([spelling |-> "B1", child |-> "TYPE_REF",
                                                args |-> <<>>])]]]

TranslationUnits ==
    UNION {{TranslationUnit(root, cargs, base) :
                root \in {IObject, "Plain"}, base \in TemplateBases(Len(cargs))} :
           cargs \in UNION {[1..n -> {IObject, "Plain", "int"}] :
                                n \in 1..MaxTemplateParams}}

HierOnly ==
    UNCHANGED <<diagVars, cliVars, abiVars, attrVars, declVars, cmpVars, lazyVars,
                propVars>>

HierInit ==
    /\ DiagIdle
    /\ PropIdle
    /\ AttrIdle
    /\ DeclIdle
    /\ CmpIdle
    /\ LazyIdle
    /\ tu \in TranslationUnits
    /\ hier = [name \in {"C", "D", "E", "F"} |-> None]

\* hierarchy.get_hierarchy(cursor) for a class of the translation unit
GetHierarchy(name) ==
    /\ HierOnly
    /\ hier[name] = None
    /\ hier' = [hier EXCEPT ![name] = Some(_get_hierarchy(tu, Class(name), <<>>))]
    /\ UNCHANGED tu

HierNext == \E name \in {"C", "D", "E", "F"} : GetHierarchy(name)

SpecHier == HierInit /\ [][HierNext]_vars

----------------------------------------------------------------------------
(* Interface.__init__ (model.py): the properties of an interface *)

MaxMethods == 2   \* methods of an interface

\* names are sequences of characters
UpperCase ==
    {"A", "B", "C", "D", "E", "F", "G", "H", "I", "J", "K", "L", "M",
     "N", "O", "P", "Q", "R", "S", "T", "U", "V", "W", "X", "Y", "Z"}

\* str.lower() of one character
lower(c) ==
    CASE c = "A" -> "a" [] c = "B" -> "b" [] c = "C" -> "c" [] c = "D" -> "d"
      [] c = "E" -> "e" [] c = "F" -> "f" [] c = "G" -> "g" [] c = "H" -> "h"
      [] c = "I" -> "i" [] c = "J" -> "j" [] c = "K" -> "k" [] c = "L" -> "l"
      [] c = "M" -> "m" [] c = "N" -> "n" [] c = "O" -> "o" [] c = "P" -> "p"
      [] c = "Q" -> "q" [] c = "R" -> "r" [] c = "S" -> "s" [] c = "T" -> "t"
      [] c = "U" -> "u" [] c = "V" -> "v" [] c = "W" -> "w" [] c = "X" -> "x"
      [] c = "Y" -> "y" [] c = "Z" -> "z" [] OTHER -> c

PrefixGet == <<"g", "e", "t">>
PrefixIs == <<"i", "s">>
PrefixSet == <<"s", "e", "t">>
PostfixAbi == <<"_", "a", "b", "i">>

\* re.match("^" + prefix + "([A-Z].*)", name): the group, None without a match
re_match(prefix, name) ==
    IF /\ Len(name) > Len(prefix)
       /\ SubSeq(name, 1, Len(prefix)) = prefix
       /\ name[Len(prefix) + 1] \in UpperCase
    THEN Some(SubSeq(name, Len(prefix) + 1, Len(name)))
    ELSE None

\* Method._lower_first
_lower_first(s) == <<lower(s[1])>> \o Tail(s)

\* property_setter_name that does not count the parameters
property_setter_name_any_arity(m) ==
    IF m.not_prop THEN None
    ELSE IF re_match(PrefixSet, m.name) # None
    THEN Some(_lower_first(re_match(PrefixSet, m.name)[1]))
    ELSE None

\* Method.property_setter_name
property_setter_name(m) ==
    IF m.not_prop THEN None
    ELSE IF m.parameters # 1 THEN None
    ELSE IF re_match(PrefixSet, m.name) # None
    THEN Some(_lower_first(re_match(PrefixSet, m.name)[1]))
    ELSE None

\* Method.property_getter_name
property_getter_name(m) ==
    IF m.not_prop THEN None
    ELSE IF m.parameters # 0 THEN None
    ELSE IF re_match(PrefixGet, m.name) # None
    THEN Some(_lower_first(re_match(PrefixGet, m.name)[1]))
    ELSE IF re_match(PrefixIs, m.name) # None
    THEN Some(_lower_first(re_match(PrefixIs, m.name)[1]))
    ELSE None

\* the method Method.__init__ builds for a cursor: the name is the spelling without
\* its last four characters, whether or not these are _abi
MethodNamed(cursor_spelling, nparams, not_prop) ==
    [name |-> SubSeq(cursor_spelling, 1, Len(cursor_spelling) - 4),
     parameters |-> nparams,
     not_prop |-> not_prop]

\* Interface.__init__, lines 941-946 and 948-953: the slot of the entry prop is set
\* to the method, in a new entry if there is none
set_slot(props, prop, slot, m) ==
    IF prop \in DOMAIN props
    THEN [props EXCEPT ![prop][slot] = Some(m)]
    ELSE (prop :> [[set |-> None, get |-> None] EXCEPT ![slot] = Some(m)]) @@ props

add_setter(props, m) ==
    IF property_setter_name(m) # None
    THEN set_slot(props, property_setter_name(m)[1], "set", m)
    ELSE props

add_getter(props, m) ==
    IF property_getter_name(m) # None
    THEN set_slot(props, property_getter_name(m)[1], "get", m)
    ELSE props

\* Interface.__init__, the loop over self.methods that fills self.properties
RECURSIVE fill_properties(_, _)
fill_properties(ms, props) ==
    IF ms = <<>> THEN props
    ELSE fill_properties(Tail(ms), add_getter(add_setter(props, Head(ms)), Head(ms)))

\* the spellings of the method cursors: getFoo_abi, isFoo_abi, setFoo_abi, getfoo_abi,
\* set_abi, foo_abi and getFooBar, which lacks the postfix
MethodSpellings ==
    {PrefixGet \o <<"F", "o", "o">> \o PostfixAbi,
     PrefixIs \o <<"F", "o", "o">> \o PostfixAbi,
     PrefixSet \o <<"F", "o", "o">> \o PostfixAbi,
     PrefixGet \o <<"f", "o", "o">> \o PostfixAbi,
     PrefixSet \o PostfixAbi,
     <<"f", "o", "o">> \o PostfixAbi,
     PrefixGet \o <<"F", "o", "o", "B", "a", "r">>}

Methods ==
    {MethodNamed(s, n, np) : s \in MethodSpellings, n \in 0..2, np \in BOOLEAN}

PropOnly ==
    UNCHANGED <<diagVars, cliVars, abiVars, attrVars, declVars, hierVars, cmpVars,
                lazyVars>>

PropInit ==
    /\ DiagIdle
    /\ AttrIdle
    /\ DeclIdle
    /\ HierIdle
    /\ CmpIdle
    /\ LazyIdle
    /\ methods \in UNION {[1..n -> Methods] : n \in 0..MaxMethods}
    /\ properties = None

\* Interface.__init__ from self.properties = {} on
InterfaceInit ==
    /\ PropOnly
    /\ properties = None
    /\ properties' = Some(fill_properties(methods, <<>>))
    /\ UNCHANGED methods

PropNext == InterfaceInit

SpecProp == PropInit /\ [][PropNext]_vars

----------------------------------------------------------------------------
(* get_attributes (extract.py) *)

MaxChildren == 3   \* children of one declaration

\* Attributes(cursor): __init__ and the whole of _parse; the records and the exception
RECURSIVE parse_tokens(_, _)
parse_tokens(r, tokens) ==
    IF tokens = <<>> \/ r.raised # None THEN r
    ELSE parse_tokens(parse_token(r.chain, Head(tokens)), Tail(tokens))

Attributes(child) ==
    IF child.tokens = <<>>
    THEN [chain |-> <<NewAttributes>>,
          raised |-> Some(ValueError(<<"unknown omni attr format: ", child.prefix>>))]
    ELSE parse_tokens([chain |-> <<NewAttributes>>, raised |-> None], child.tokens)

\* Attributes.is_valid: cursor.spelling.startswith("omni_attr:")
is_valid(child) == child.prefix = "omni_attr:"

\* get_attributes: the loop over the children from the first of children on, with the
\* attributes found before it
RECURSIVE get_attributes_from(_, _, _)
get_attributes_from(c, children, found) ==
    IF c.raised # None THEN [c |-> c, ret |-> None]
    ELSE IF children = <<>> THEN [c |-> c, ret |-> found]
    ELSE IF Head(children).kind = "ANNOTATE_ATTR" /\ is_valid(Head(children))
    THEN IF found = None
         THEN get_attributes_from([c EXCEPT !.raised = Attributes(Head(children)).raised],
                                  Tail(children),
                                  Some(Attributes(Head(children)).chain))
         ELSE get_attributes_from(
                  emit_each(c, 1, <<Error(
                      <<"OMNI_ATTR cannot be specified more than once on a declaration">>)>>),
                  Tail(children), found)
    ELSE get_attributes_from(c, Tail(children), found)

\* get_attributes answering with the first annotation and reporting nothing
get_attributes_silent(c, children) ==
    [c |-> c, ret |-> get_attributes_from(c, children, None).ret]

get_attributes(c, children) == get_attributes_from(c, children, None)

\* the children a declaration has: annotations, valid or not, and other children
Annotation(prefix, tokens) == [kind |-> "ANNOTATE_ATTR", prefix |-> prefix, tokens |-> tokens]

Children ==
    {Annotation("omni_attr:", <<[left |-> <<"in">>, value |-> None]>>),
     Annotation("omni_attr:", <<[left |-> <<"*", "count">>, value |-> Some("len")]>>),
     Annotation("omni_attr:", <<[left |-> <<"bogus">>, value |-> None]>>),
     Annotation("other:", <<[left |-> <<"out">>, value |-> None]>>),
     [kind |-> "FIELD_DECL", prefix |-> "", tokens |-> <<>>]}

DeclOnly ==
    UNCHANGED <<rootScope, ops, accepted, last, cliVars, abiVars, attrVars, hierVars,
                cmpVars, lazyVars, propVars>>

DeclInit ==
    /\ DiagIdle
    /\ PropIdle
    /\ AttrIdle
    /\ HierIdle
    /\ CmpIdle
    /\ LazyIdle
    /\ decl \in UNION {[1..n -> Children] : n \in 0..MaxChildren}
    /\ got = [called |-> FALSE, ret |-> None]

\* get_attributes(cursor, reporter) on the declaration
GetAttributes ==
    /\ DeclOnly
    /\ ~got.called
    /\ LET r == get_attributes(Ctx(stack, output, <<>>, <<>>, 0), decl)
       IN  /\ stack' = r.c.stack
           /\ output' = r.c.output
           /\ exc' = r.c.raised
           /\ got' = [called |-> TRUE, ret |-> r.ret]
    /\ UNCHANGED decl

DeclNext == GetAttributes

SpecDecl == DeclInit /\ [][DeclNext]_vars

----------------------------------------------------------------------------
(* main() (cli.py) as a state machine *)

MaxRuns == 2        \* runs of main() on the same files in one behaviour

BodyA == <<CodeLine("int a;")>>
BodyB == <<CodeLine("void f() { }")>>
BodyC == <<CodeLine("int b;")>>

\* what the generators render for the interfaces of the input
Bodies == {BodyA, BodyB, BodyC}

\* an output file as a generator leaves it
Output(years, body) == render(years, body) \o <<Blank>>

TranslationUnitLoadError ==
    [type |-> "TranslationUnitLoadError", text |-> <<"Error parsing translation unit.">>,
     diagnostic |-> None]

AttributeError ==
    [type |-> "AttributeError", text |-> <<"'NoneType' object has no attribute 'kind'">>,
     diagnostic |-> None]

\* the command lines: every choice of outputs and write options; -M and -v with both
\* outputs; --ast on its own
Args ==
    {a \in [api : BOOLEAN, py : BOOLEAN, M : BOOLEAN, ast : BOOLEAN, verbose : BOOLEAN,
            debug : BOOLEAN, skip : BOOLEAN, fail : BOOLEAN] :
        \/ ~a.M /\ ~a.ast /\ ~a.verbose
        \/ a.M /\ ~a.ast /\ a.api /\ a.py /\ ~a.fail /\ ~a.debug
        \/ a.ast /\ ~a.M /\ ~a.api /\ ~a.py /\ ~a.skip /\ ~a.fail /\ ~a.verbose}

\* the outputs a first run may find: none, one of an earlier year, one of this year
OldOutputs ==
    {None, Some(File(Output(<<OldYear>>, BodyA), 0)), Some(File(Output(<<Today>>, BodyA), 0))}

StartRun(today) ==
    [today |-> today, load |-> "ok", clang |-> None, build |-> "ok", body |-> <<>>,
     api |-> "none", py |-> "none"]

CliInit ==
    /\ UnitIdle
    /\ method = <<>>
    /\ apc = "idle"
    /\ parameters = 0
    /\ argv \in Args
    /\ \E api \in OldOutputs, py \in OldOutputs, dep \in BOOLEAN, newer \in BOOLEAN,
          inc \in BOOLEAN :
          /\ ~argv.M => (~dep /\ ~newer /\ ~inc)
          /\ argv.M => (Some(File(Output(<<Today>>, BodyA), 0)) \notin {api, py})
          /\ ~argv.api => api = None
          /\ ~argv.py => py = None
          /\ fs = [name \in Files |->
                     CASE name = InFile -> Some(File(<<>>, IF newer THEN 1 ELSE 0))
                       [] name = DepFile -> IF dep THEN Some(File(<<>>, 0)) ELSE None
                       [] name = ToolFile -> Some(File(<<>>, 0))
                       [] name = ApiFile -> api
                       [] name = PyFile -> py
                       [] name = IncludesFile ->
                              IF inc
                              THEN Some(File(<<CodeLine(InFile), CodeLine(DepFile), Blank>>, 0))
                              ELSE None
                       [] OTHER -> None]
    /\ fs0 = fs
    /\ fsLog = <<>>
    /\ clock = 2
    /\ pc = "start"
    /\ run = StartRun(Today)
    /\ runs = <<>>
    /\ exitCode = None
    /\ escaped = None
    /\ stack = <<NewReporter("text", 0, NoMsg)>>
    /\ output = <<>>
    /\ exc = None
    /\ rootScope = FALSE
    /\ ops = 0
    /\ accepted = << <<>> >>
    /\ last = Last("init", 0, IGNORED, None, None, <<>>, <<>>)

CliOnly == UNCHANGED <<exc, rootScope, ops, accepted, last, abiVars, unitVars>>

Here == Ctx(stack, output, fs, fsLog, clock)

\* main() goes on with the next statement
Proceed(c, nextpc, r) ==
    /\ stack' = c.stack
    /\ output' = c.output
    /\ fs' = c.fs
    /\ fsLog' = c.log
    /\ clock' = c.clock
    /\ run' = r
    /\ pc' = nextpc
    /\ UNCHANGED <<argv, fs0, runs, exitCode, escaped>>

\* main() ends: it returns code, or the exception e leaves it
Leave(c, code, e, r) ==
    /\ stack' = c.stack
    /\ output' = c.output
    /\ fs' = c.fs
    /\ fsLog' = c.log
    /\ clock' = c.clock
    /\ run' = r
    /\ pc' = "done"
    /\ exitCode' = Some(code)
    /\ escaped' = e
    /\ UNCHANGED <<argv, fs0, runs>>

\* main() returning 0 whatever the reporter holds
main_return_zero(s) == 0

\* main(): return 0 if reporter.valid else 1
main_return(s) == IF valid(s, 1) THEN 0 ELSE 1

\* main(): the except clauses, for the exception c.raised
Except(c, r) ==
    LET e == c.raised[1]
        c0 == [c EXCEPT !.raised = None]
    IN  IF e.type = "TranslationUnitLoadError"
        THEN LET c1 == report(c0, FATAL, <<"{}">>, <<e.text>>)
                 c2 == report(c1, FATAL,
                              <<"Check if the input file, '", "{}",
                                "' exists and is readable.">>,
                              << <<InFile>> >>)
             IN  Leave(c2, 1, c2.raised, r)
        ELSE IF e.type = "DiagnosticException"
        THEN Leave(c0, 1, IF argv.debug THEN c.raised ELSE None, r)
        ELSE IF argv.debug THEN Leave(c0, 1, c.raised, r)
        ELSE LET c1 == report(c0, FATAL, <<"{}">>, <<e.text>>)
             IN  Leave(c1, 1, c1.raised, r)

Step(c, nextpc, r) ==
    IF c.raised = None THEN Proceed(c, nextpc, r) ELSE Except(c, r)

generated_files ==
    (IF argv.api THEN <<ApiFile>> ELSE <<>>)
    \o (IF argv.py THEN <<PyFile>> ELSE <<>>)
    \o (IF argv.M THEN <<IncludesFile>> ELSE <<>>)

\* a later run has the input of the first: the front end and the model builder do
\* what they did then
Replayed == runs # <<>>

\* main(), lines 46-64: the reporter is made, the up-to-date check
MainStart ==
    /\ CliOnly
    /\ pc = "start"
    /\ LET log_level == IF argv.verbose THEN VERBOSE ELSE NOTE
           reporter == [NewReporter("text", 0, NoMsg) EXCEPT !.log = Some(log_level)]
           c == Ctx(<<reporter>>, output, fs, fsLog, clock)
       IN  IF ~argv.ast /\ argv.M
           THEN LET u == is_output_up_to_date(c, generated_files, IncludesFile)
                IN  IF u.c.raised = None /\ u.ret THEN Leave(u.c, 0, None, run)
                    ELSE Step(u.c, "parse", run)
           ELSE Proceed(c, "parse", run)

\* main(), lines 91-107: the api output is created when missing, the input is parsed,
\* the front end's diagnostics are passed on
Parse ==
    /\ CliOnly
    /\ pc = "parse"
    /\ \E load \in {"ok", "error"}, d \in {None, Some(WARNING), Some(ERROR)} :
          /\ Replayed => (load = runs[1].run.load /\ d = runs[1].run.clang)
          /\ LET c1 == IF argv.api /\ ~exists(fs, ApiFile)
                       THEN write_file(Here, ApiFile, <<>>)
                       ELSE Here
                 r == [run EXCEPT !.load = load, !.clang = IF load = "ok" THEN d ELSE None]
             IN  IF load = "error"
                 THEN d = None /\ Except([c1 EXCEPT !.raised = Some(TranslationUnitLoadError)], r)
                 ELSE LET m == IF d = None THEN EmitResult(c1.stack, None, <<>>, None)
                               ELSE emit_message(c1.stack, 1,
                                        DiagnosticMessage(d[1], Some(Loc1),
                                                          <<"unknown type name 'Foo'">>))
                      IN  Proceed([c1 EXCEPT !.stack = m.stack, !.output = @ \o m.printed],
                                  IF argv.ast THEN "ast" ELSE "build", r)

\* main(), lines 109-112: with reporter: print_ast(...); return 0
Ast ==
    /\ CliOnly
    /\ pc = "ast"
    /\ \E bad \in BOOLEAN :
          /\ Replayed => (bad <=> runs[1].run.build = "error")
          /\ LET c1 == IF bad
                       THEN report(Here, ERROR, <<"CursorKind.UNEXPOSED_DECL ", "x">>, <<>>)
                       ELSE Here
                 c2 == [c1 EXCEPT !.raised = validate(c1.stack, 1)]
                 r == [run EXCEPT !.build = IF bad THEN "error" ELSE "ok"]
             IN  IF c2.raised = None THEN Leave(c2, 0, None, r) ELSE Except(c2, r)

BuildOutcomes == {"ok", "warning", "error", "invalid", "exception"}

\* a parameter that is a pointer without in / out: Parameter.__init__ raises
invalid_parameter(c) == Parameter(c, ParmDecl(<<"*", "int">>, <<FALSE>>, <<{}>>, FALSE))

\* main(), lines 115-118: Hierarchy and InterfaceMatcher build the model of the input
Build ==
    /\ CliOnly
    /\ pc = "build"
    /\ \E outcome \in BuildOutcomes, body \in Bodies :
          /\ (Replayed /\ runs[1].run.body # <<>>) =>
                 (outcome = runs[1].run.build /\ body = runs[1].run.body)
          /\ LET c1 == CASE outcome = "ok" -> Here
                         [] outcome = "warning" ->
                                report(Here, WARNING, <<"omni attribute ignored">>, <<>>)
                         [] outcome = "error" ->
                                report(Here, ERROR, <<"return type is not ABI safe">>, <<>>)
                         [] outcome = "invalid" -> invalid_parameter(Here)
                         [] OTHER -> [Here EXCEPT !.raised = Some(AttributeError)]
                 r == [run EXCEPT !.build = outcome, !.body = body]
             IN  Step(c1, "api", r)

Outcome(c) == IF c.raised = None THEN "ok" ELSE "raised"

\* main(), lines 121-131
GenApi ==
    /\ CliOnly
    /\ pc = "api"
    /\ IF argv.api
       THEN LET c1 == generate(Here, ApiFile, run.body, run.today, argv.skip, argv.fail)
            IN  Step(c1, "py", [run EXCEPT !.api = Outcome(c1)])
       ELSE Proceed(Here, "py", run)

\* main(), lines 132-142
GenPy ==
    /\ CliOnly
    /\ pc = "py"
    /\ IF argv.py
       THEN LET c1 == generate(Here, PyFile, run.body, run.today, argv.skip, argv.fail)
            IN  Step(c1, "deps", [run EXCEPT !.py = Outcome(c1)])
       ELSE Proceed(Here, "deps", run)

\* main(), lines 144-147
Finish ==
    /\ CliOnly
    /\ pc = "deps"
    /\ LET c1 == IF argv.M THEN write_includes(Here, IncludesFile) ELSE Here
       IN  IF c1.raised = None THEN Leave(c1, main_return(c1.stack), None, run)
           ELSE Except(c1, run)

\* the tool is run again on the files the last run left, the same year or the next
Rerun ==
    /\ CliOnly
    /\ pc = "done"
    /\ Len(runs) + 1 < MaxRuns
    /\ runs' = Append(runs, [run |-> run, fs |-> fs, exitCode |-> exitCode])
    /\ \E today \in {run.today, run.today + 1} : run' = StartRun(today)
    /\ pc' = "start"
    /\ fs0' = fs
    /\ fsLog' = <<>>
    /\ stack' = <<NewReporter("text", 0, NoMsg)>>
    /\ output' = <<>>
    /\ exitCode' = None
    /\ escaped' = None
    /\ UNCHANGED <<argv, fs, clock>>

CliNext ==
    \/ MainStart
    \/ Parse
    \/ Ast
    \/ Build
    \/ GenApi
    \/ GenPy
    \/ Finish
    \/ Rerun

SpecCli == CliInit /\ [][CliNext]_vars

----------------------------------------------------------------------------
(* Properties of the reporter tree *)

\* the worst level among a sequence of messages, IGNORED when there is none
MaxLevel(ms) ==
    IF ms = <<>> THEN IGNORED
    ELSE CHOOSE l \in {ms[k].level : k \in 1..Len(ms)} :
             \A k \in 1..Len(ms) : ms[k].level <= l

\* the earliest message at the worst level among a sequence of messages
EarliestWorst(ms) ==
    ms[CHOOSE k \in 1..Len(ms) :
           /\ ms[k].level = MaxLevel(ms)
           /\ \A j \in 1..(k - 1) : ms[j].level # MaxLevel(ms)]

BlockClosed == last.op \in {"block_exit", "block_exit_exc"}

\* the messages the closed scope accepted, the fatal one of an abnormal exit included
ScopeAccepted == last.pre \o last.fatal

\* C6: when a nested scope closes, the message handed to the parent has the level
\* max(root_level at the moment of closing, worst level among the messages the scope
\* accepted): a worse nested message escalates it, and a root_level reset below the
\* worst nested level does not lower it below that level.
C6_CloseLevel ==
    BlockClosed =>
        /\ last.arg[1].level = Max(last.level, MaxLevel(ScopeAccepted))
        /\ last.arg[1].level >= MaxLevel(ScopeAccepted)

C6_Witness ==
    /\ last.op = "block_exit"
    /\ last.pre # <<>>
    /\ MaxLevel(last.pre) > last.level
    /\ last.ret # None
    /\ last.ret[1].level = MaxLevel(last.pre)

\* C7: closing a nested scope appends at most one message to the parent, exactly one
\* if its final level is not below the parent's log level, and that message's nested
\* sequence is the messages the scope accepted, in acceptance order and unchanged.
C7_CloseAppends ==
    BlockClosed =>
        /\ last.arg[1].nested = ScopeAccepted
        /\ stack[last.rep].diagnostics =
               last.ppre \o (IF last.arg[1].level >= diagnostic_log_level(stack, last.rep)
                             THEN last.arg ELSE <<>>)

C7_Witness ==
    /\ last.op = "block_exit"
    /\ Len(last.pre) = 2
    /\ last.pre[1] # last.pre[2]
    /\ last.pre[1].level < last.level
    /\ stack[last.rep].diagnostics = last.ppre \o last.arg

\* C8: validate() raises DiagnosticException whenever the worst level is at or above
\* the error level, carrying the earliest accepted message at the worst level, and
\* returns normally otherwise.
C8_Validate ==
    last.op = "validate" =>
        IF MaxLevel(last.pre) >= diagnostic_error_level(stack, last.rep)
        THEN /\ exc # None
             /\ exc[1].type = "DiagnosticException"
             /\ exc[1].diagnostic = Some(EarliestWorst(last.pre))
        ELSE exc = None

C10_AbnormalExit ==
    last.op = "block_exit_exc" =>
        /\ last.fatal # None
        /\ last.fatal[1].level = FATAL
        /\ last.fatal[1].message =
               <<"Got ", last.e[1].type, " exception during processing: ">> \o last.e[1].text
        /\ last.arg[1].nested = Append(last.pre, last.fatal[1])
        /\ last.arg[1].level = FATAL
        /\ stack[last.rep].diagnostics = Append(last.ppre, last.arg[1])
        /\ exc = last.e
        /\ exc # None

C10_Witness ==
    /\ last.op = "block_exit_exc"
    /\ last.pre # <<>>
    /\ last.level < FATAL
    /\ exc # None
    /\ exc[1].type = "NotImplementedError"
    /\ Len(stack) = 1

\* the reporters a reporter inherits from, itself included, that hold an override
Overriding(i, selector) ==
    {j \in 1..i : /\ stack[j][selector] # None
                  /\ \A k \in (j + 1)..i : stack[k].parent = k - 1}

\* the override of the nearest of them, the default when there is none
Inherited(i, selector, default) ==
    IF Overriding(i, selector) = {} THEN default
    ELSE stack[CHOOSE j \in Overriding(i, selector) :
                   \A k \in Overriding(i, selector) : k <= j][selector][1]

\* C11: a reporter's effective log level, and independently its error level, is its
\* own override if one is set, otherwise that of its nearest ancestor that has one,
\* otherwise the default (NOTE, ERROR); a local override hides the ancestors' values,
\* and after an override is deleted the reporter and its descendants without an
\* override of their own fall back again.
C11_Inherit ==
    \A i \in Reporters :
        /\ diagnostic_log_level(stack, i) = Inherited(i, "log", NOTE)
        /\ diagnostic_error_level(stack, i) = Inherited(i, "err", ERROR)
        /\ stack[i].log # None => diagnostic_log_level(stack, i) = stack[i].log[1]
        /\ stack[i].err # None => diagnostic_error_level(stack, i) = stack[i].err[1]
        /\ (stack[i].log = None /\ i > 1) =>
               diagnostic_log_level(stack, i) = diagnostic_log_level(stack, stack[i].parent)
        /\ (stack[i].err = None /\ i > 1) =>
               diagnostic_error_level(stack, i) = diagnostic_error_level(stack, stack[i].parent)

\* a block without an override inherits the log level set on the root, not the default
C11_Witness ==
    /\ Len(stack) = 2
    /\ stack[1].log # None
    /\ stack[2].log = None
    /\ diagnostic_log_level(stack, 2) = stack[1].log[1]
    /\ diagnostic_log_level(stack, 2) # NOTE

\* the text of a sequence of messages as the text reporter writes them, in order
RECURSIVE Rendered(_)
Rendered(ms) ==
    IF ms = <<>> THEN <<>>
    ELSE print_into(Head(ms), 0, TRUE) \o Rendered(Tail(ms))

\* C12: the output sink of the text reporter holds exactly the messages the reporter
\* accepted, each written by the emit_message call that accepted it, so in the order
\* of the reporter's diagnostics list; a rejected message writes nothing.
C12_SinkIsAccepted ==
    /\ output = Rendered(stack[1].diagnostics)
    /\ (last.op = "emit" /\ last.rep = 1 /\ last.ret = None) =>
           output = Rendered(last.pre)
    /\ (last.op = "emit" /\ last.rep = 1 /\ last.ret # None) =>
           output = Rendered(last.pre) \o print_into(last.ret[1], 0, TRUE)

C12_Witness ==
    /\ last.op = "emit"
    /\ last.rep = 1
    /\ last.ret = None
    /\ last.arg # None
    /\ Len(stack[1].diagnostics) = 2
    /\ stack[1].diagnostics[1] # stack[1].diagnostics[2]
    /\ output # <<>>

\* the reporters open before and after a step: stack[i] and stack'[i] are one reporter
Kept == 1..(IF Len(stack) <= Len(stack') THEN Len(stack) ELSE Len(stack'))

\* the sequence a is the beginning of the sequence b
IsPrefix(a, b) == Len(a) <= Len(b) /\ SubSeq(b, 1, Len(a)) = a

\* the worst level of every open reporter is the maximum level in its list
WorstIsMax == \A i \in Reporters : stack[i].worst = MaxLevel(stack[i].diagnostics)

\* C28: the worst_diagnostic_level of a reporter is the maximum level among the
\* messages of its diagnostics list, IGNORED for an empty list; a step only appends to
\* the list and never lowers the worst level, also a step that sets or deletes a
\* threshold
C28_WorstAndAppendOnly ==
    /\ []WorstIsMax
    /\ [][\A i \in Kept :
              /\ IsPrefix(stack[i].diagnostics, stack'[i].diagnostics)
              /\ stack'[i].worst >= stack[i].worst]_vars

\* the root holds a warning and then a note, and its log level was raised above both
C28_Witness ==
    /\ Len(stack[1].diagnostics) = 2
    /\ stack[1].diagnostics[1].level = WARNING
    /\ stack[1].diagnostics[2].level = NOTE
    /\ stack[1].worst = WARNING
    /\ last.op = "set_log"
    /\ diagnostic_log_level(stack, 1) = FATAL

\* the last step was an emit below the effective log level of its reporter
IgnoredEmit ==
    /\ last'.op = "emit"
    /\ ops' = ops + 1
    /\ last'.level < diagnostic_log_level(stack, last'.rep)

\* C27: an emit whose level is below the reporter's effective log level returns None
\* and changes nothing: the diagnostics lists, the worst levels and the output stay as
\* they were and no exception is raised, whatever the source and the arguments are
C27_IgnoredEmit ==
    [][IgnoredEmit =>
           /\ last'.ret = None
           /\ exc' = None
           /\ stack' = stack
           /\ output' = output
           /\ accepted' = accepted]_vars

\* an emit below the log level was given a source that is none and an argument whose
\* __str__ raises, and returned None
C27_Witness ==
    /\ last.op = "emit"
    /\ last.level < diagnostic_log_level(stack, last.rep)
    /\ last.ret = None
    /\ exc = None
    /\ last.arg # None
    /\ last.arg[1].source = BadSource
    /\ last.arg[1].message = <<"Ignore me ">> \o RaiseOnRepr

----------------------------------------------------------------------------
(* Properties of annotation parsing *)

\* a token's key as written after its '*'s, the number of its '*'s, and what it sets
KeyOf(token) == token.left[Len(token.left)]

LevelOf(token) == Len(token.left) - 1

NameOf(token) ==
    CASE KeyOf(token) = "in" -> "input"
      [] KeyOf(token) = "out" -> "output"
      [] KeyOf(token) = "return" -> "returned"
      [] OTHER -> KeyOf(token)

Known(token) == KeyOf(token) \in OptionNames \cup {"in", "out", "return"}

\* the tokens parsed so far that set name on the record level levels below the root
Setting(level, name) ==
    {n \in 1..tokens_done : LevelOf(spelling[n]) = level /\ NameOf(spelling[n]) = name}

DeepestStar ==
    IF tokens_done = 0 THEN 0
    ELSE CHOOSE k \in {LevelOf(spelling[n]) : n \in 1..tokens_done} :
             \A n \in 1..tokens_done : LevelOf(spelling[n]) <= k

\* C13: a token whose key carries k leading '*' sets that key only on the record k
\* pointee levels below the root, creating the records that are missing, and leaves
\* the key at its default on every other level; the pointee chain is as long as the
\* largest number of leading '*' among the tokens.
C13_StarLevels ==
    (attributes # <<>> /\ attr_exc = None
         /\ \A n \in 1..tokens_done : Known(spelling[n])) =>
        /\ Len(attributes) = 1 + DeepestStar
        /\ \A j \in 1..Len(attributes) :
               /\ attributes[j].pointee =
                      IF j < Len(attributes) THEN AttributesObject ELSE "None"
               /\ \A name \in OptionNames :
                      attributes[j][name] =
                          IF Setting(j - 1, name) = {} THEN NewAttributes[name]
                          ELSE LET n == CHOOSE n \in Setting(j - 1, name) :
                                            \A m \in Setting(j - 1, name) : m <= n
                               IN  IF spelling[n].value = None THEN "True"
                                   ELSE spelling[n].value[1]

\* "*count=len,*in" parsed: the root has neither, its pointee has both
C13_Witness ==
    /\ tokens_done = 2
    /\ attr_exc = None
    /\ spelling = <<[left |-> <<"*", "count">>, value |-> Some("len")],
                    [left |-> <<"*", "in">>, value |-> None]>>
    /\ Len(attributes) = 2
    /\ attributes[1].count = "None" /\ attributes[1].input = "False"
    /\ attributes[2].count = "len" /\ attributes[2].input = "True"

\* C14: a token whose key, after its leading '*', is neither an option name nor one
\* of in, out, return raises a parse error and sets or overwrites no field of the
\* Attributes record.
C14_UnknownKey ==
    (tokens_done > 0 /\ ~Known(spelling[tokens_done])) =>
        /\ attr_exc # None
        /\ attr_exc[1].type = "ValueError"
        /\ attributes = attr_pre

\* the valid annotations among the children of the declaration, by position
ValidAnnotations ==
    {k \in 1..Len(decl) : decl[k].kind = "ANNOTATE_ATTR" /\ decl[k].prefix = "omni_attr:"}

FirstAnnotation == CHOOSE k \in ValidAnnotations : \A j \in ValidAnnotations : k <= j

MoreThanOnce ==
    [source |-> Some(Loc1), level |-> ERROR, nested |-> <<>>,
     message |-> <<"OMNI_ATTR cannot be specified more than once on a declaration">>]

----------------------------------------------------------------------------
(* Properties of the class hierarchy *)

\* the class D derives from, and the arguments C gives to Wrapper
RootOfD == tu.usr2info["D"][1].name

ArgsOfC == tu.usr2info["C"][1].args

\* Wrapper derives from one of its own parameters, and C passes D's base for it
WrapsRoot ==
    /\ tu.templates["Wrapper"].base # None
    /\ \E b \in 1..Len(ArgsOfC) :
           /\ tu.templates["Wrapper"].base[1].spelling = ParamNames[b]
           /\ ArgsOfC[b] = RootOfD

\* C16: for a class C deriving from Wrapper<Root>, where the template Wrapper derives
\* from its own parameter, get_hierarchy(C) is [C, Wrapper<Root>, Root], and its last
\* element is the root declaration that get_hierarchy(D) ends with for a class D
\* deriving from Root directly, so is_interface agrees on C and D.
C16_RootPreserved ==
    (WrapsRoot /\ hier["C"] # None /\ hier["D"] # None) =>
        /\ hier["C"][1] = <<Class("C"), Specialization("Wrapper", ArgsOfC), Class(RootOfD)>>
        /\ hier["D"][1] = <<Class("D"), Class(RootOfD)>>
        /\ hier["C"][1][3] = hier["D"][1][2]
        /\ chain_is_interface(hier["C"][1]) = chain_is_interface(hier["D"][1])

\* C and D are interfaces, through the second parameter of Wrapper
C16_Witness ==
    /\ WrapsRoot
    /\ hier["C"] # None /\ hier["D"] # None
    /\ RootOfD = IObject
    /\ Len(ArgsOfC) = 2
    /\ ArgsOfC[1] # IObject
    /\ chain_is_interface(hier["C"][1])
    /\ Len(hier["C"][1]) = 3

\* the arguments F gives to Pair
ArgsOfF == tu.usr2info["F"][1].args

\* C23: for template<A1, A2> class Pair : Single<A2>, template<B1> class Single : B1
\* and class F : Pair<X, Y>, the argument of the base Single<A2> is replaced by the
\* argument bound to the parameter A2 of Pair, so the chain of F ends at the class Y,
\* the last argument F gives, not at the argument at the position A2 has in Single<A2>
C23_ArgumentThreading ==
    (hier["F"] # None /\ ArgsOfF[Len(ArgsOfF)] \in {IObject, "Plain"}) =>
        hier["F"][1][Len(hier["F"][1])] = Class(ArgsOfF[Len(ArgsOfF)])

\* the class of a cursor has a record in the hierarchy
Indexed(node) == node.template = None /\ node.name \in DOMAIN tu.usr2info

\* the element after chain[k] is the one recorded base of chain[k], or the base that
\* _get_template_base resolves for a cursor without a record
Continues(chain, k) ==
    IF Indexed(chain[k])
    THEN tu.usr2info[chain[k].name] = <<chain[k + 1]>>
    ELSE /\ chain[k + 1] # chain[k]
         /\ _get_template_base(tu, chain[k], <<>>) = Some(chain[k + 1])

\* nothing follows the cursor: its record has no base or several, or it has no record
\* and _get_template_base resolves nothing but the cursor itself
Ends(node) ==
    IF Indexed(node)
    THEN Len(tu.usr2info[node.name]) # 1
    ELSE _get_template_base(tu, node, <<>>) \in {None, Some(node)}

----------------------------------------------------------------------------
(* Properties of Interface.__init__ *)

\* the name of a method with the prefix and, capitalized, the key of an entry
Capital(c) ==
    IF \E u \in UpperCase : lower(u) = c THEN CHOOSE u \in UpperCase : lower(u) = c ELSE c

Accessor(prefix, key) == prefix \o <<Capital(key[1])>> \o Tail(key)

Built == properties[1]

IsGetterOf(m, key) ==
    /\ m.parameters = 0
    /\ ~m.not_prop
    /\ m.name \in {Accessor(PrefixGet, key), Accessor(PrefixIs, key)}

IsSetterOf(m, key) ==
    /\ m.parameters = 1
    /\ ~m.not_prop
    /\ m.name = Accessor(PrefixSet, key)

MethodsOfInterface == {methods[i] : i \in 1..Len(methods)}

\* the keys that are the lower-cased base name of a method named with the prefixes
Keys ==
    UNION {{_lower_first(SubSeq(m.name, k, Len(m.name))) :
                k \in {j \in 3..4 : j <= Len(m.name)}} : m \in MethodsOfInterface}

\* C21: in the properties of a built Interface, a get slot holds only a method of the
\* interface with no parameter, without not_prop, named get or is followed by the
\* capitalized key; a set slot only one with one parameter, without not_prop, named
\* set followed by the capitalized key; every entry has a slot that is not None; and
\* each getter and each setter of a base name is held by the one entry of that name,
\* so that a getter and a setter of the same base name share it.
C21_Properties ==
    properties # None =>
        /\ \A key \in DOMAIN Built :
               /\ Built[key].get # None =>
                      /\ Built[key].get[1] \in MethodsOfInterface
                      /\ IsGetterOf(Built[key].get[1], key)
               /\ Built[key].set # None =>
                      /\ Built[key].set[1] \in MethodsOfInterface
                      /\ IsSetterOf(Built[key].set[1], key)
               /\ Built[key].get # None \/ Built[key].set # None
        /\ \A key \in Keys, m \in MethodsOfInterface :
               /\ IsGetterOf(m, key) => (key \in DOMAIN Built /\ Built[key].get # None)
               /\ IsSetterOf(m, key) => (key \in DOMAIN Built /\ Built[key].set # None)

\* getFoo and setFoo share the entry foo
C21_Witness ==
    /\ properties # None
    /\ DOMAIN Built = {<<"f", "o", "o">>}
    /\ Built[<<"f", "o", "o">>].get # None
    /\ Built[<<"f", "o", "o">>].set # None

----------------------------------------------------------------------------
(* Properties of compare_files *)

Current == cmp_fs[ApiFile][1].content

Generated == cmp_fs[tmp_filename(ApiFile)][1].content

\* a file's lines without a first line that is a copyright comment
WithoutCopyright(content) ==
    IF Len(content) > 0 /\ content[1].text = CopyrightText
    THEN [k \in 1..(Len(content) - 1) |-> content[k + 1]]
    ELSE content

\* C17: compare_files reports the files as the same if and only if their lines are
\* equal after dropping, in each file on its own, a first line that is a copyright
\* comment; a difference in a first line that is no copyright comment makes them
\* different; when they are the same the differences text is empty.
C17_CompareFiles ==
    compared # None =>
        /\ compared[1].are_same <=> (WithoutCopyright(Current) = WithoutCopyright(Generated))
        /\ compared[1].are_same => compared[1].differences = <<>>
        /\ ~compared[1].are_same => compared[1].differences # <<>>
        /\ (/\ Current # <<>> /\ Generated # <<>>
            /\ Current[1].text # CopyrightText
            /\ Generated[1].text # CopyrightText
            /\ Current[1] # Generated[1]) => ~compared[1].are_same

\* the same code under copyright comments of different years
C17_Witness ==
    /\ compared # None
    /\ compared[1].are_same
    /\ Len(Current) = 2 /\ Len(Generated) = 2
    /\ Current[1] # Generated[1]
    /\ Current[2] = Generated[2]

----------------------------------------------------------------------------
(* Properties of Lazy *)

\* the last call before the n-th that is an op, 0 when there is none
LastBefore(n, op) ==
    IF \E k \in 1..(n - 1) : calls[k].op = op
    THEN CHOOSE k \in 1..(n - 1) :
             /\ calls[k].op = op
             /\ \A j \in (k + 1)..(n - 1) : calls[j].op # op
    ELSE 0

\* the calls after the c-th and before the n-th in which the loader returned a value
LoadedBetween(c, n) ==
    {k \in (c + 1)..(n - 1) : calls[k].loaded /\ calls[k].raised = None}

\* C18: get() returns the value of the latest set() if no clear() followed it,
\* otherwise the result of the one loader call made by the first get() since the
\* latest clear(); the loader is called only by a get() that finds no cached value,
\* set() never calls it, clear() on an empty cache does nothing, and a loader call
\* that raises caches nothing, so the next get() calls the loader again.
C18_Lazy ==
    /\ loads = Cardinality({n \in 1..Len(calls) : calls[n].loaded})
    /\ \A n \in 1..Len(calls) :
           LET s == LastBefore(n, "set")
               c == LastBefore(n, "clear")
           IN  IF calls[n].op # "get"
               THEN ~calls[n].loaded /\ calls[n].raised = None
               ELSE IF s > c
               THEN /\ calls[n].ret = calls[s].arg
                    /\ ~calls[n].loaded
                    /\ calls[n].raised = None
               ELSE /\ calls[n].loaded <=> (LoadedBetween(c, n) = {})
                    /\ Cardinality(LoadedBetween(c, n)) <= 1
                    /\ \A k \in LoadedBetween(c, n) :
                           calls[n].ret = calls[k].ret /\ calls[n].raised = None
                    /\ (calls[n].raised # None) => (calls[n].loaded /\ calls[n].ret = None)
    /\ (calls # <<>> /\ calls[Len(calls)].op = "clear") => lazy_value = None
    /\ (calls # <<>> /\ calls[Len(calls)].op = "set") =>
           lazy_value = calls[Len(calls)].arg

\* a failed load, a load, a clear, and the load of the get after it
C18_Witness ==
    /\ Len(calls) = 4
    /\ calls[1].op = "get" /\ calls[1].raised # None
    /\ calls[2].op = "get" /\ calls[2].ret = Some(2)
    /\ calls[3].op = "clear"
    /\ calls[4].op = "get" /\ calls[4].ret = Some(3)
    /\ loads = 3

----------------------------------------------------------------------------
(* Properties of Method construction *)

DeclaresVirtual(name) ==
    \E k \in 1..Len(usr2info[name].children) : usr2info[name].children[k].virtual

ReturnErrorReported ==
    \E k \in 1..Len(stack[1].diagnostics) :
        /\ stack[1].diagnostics[k].level = ERROR
        /\ stack[1].diagnostics[k].message = <<"return type is not ABI safe">>

\* C1: once Method.__init__ has checked a method whose return type is a raw pointer to
\* a class that is not an interface and declares virtual methods, the reporter holds
\* the error "return type is not ABI safe", whatever the parameters are
C1_ReturnPointerToVirtual ==
    (/\ apc # "new"
     /\ apc # "idle"
     /\ ~method.unsafe
     /\ Len(method.result) = 2
     /\ is_pointer(method.result)
     /\ get_declaration(get_pointee(method.result)) \in ClassNames
     /\ ~is_interface(get_declaration(get_pointee(method.result)))
     /\ DeclaresVirtual(get_declaration(get_pointee(method.result))))
    => ReturnErrorReported

\* the members of the classes of a chain: the position of the class in the chain and
\* the member
MembersOf(chain) ==
    UNION {{[at |-> i, child |-> get_children(chain[i])[k]] :
               k \in 1..Len(get_children(chain[i]))} : i \in 1..Len(chain)}

\* the types reached from a field's type by unwrapping pointers that are not interface
\* pointers
Unwrapped(t) ==
    {SubSeq(t, j, Len(t)) : j \in {j \in 1..Len(t) :
        \A i \in 1..(j - 1) : /\ is_pointer(SubSeq(t, i, Len(t)))
                              /\ ~is_interface_pointer(SubSeq(t, i, Len(t)))}}

\* what the claim rejects: (i) fields in a class and in one of its ancestors, (ii) two
\* fields of different access, (iii) a virtual method, (iv) a field with a type that is
\* not ABI safe at a level reached
RECURSIVE Rejects(_)
Rejects(t) ==
    LET chain == get_hierarchy(get_declaration(t))
        fields == {m \in MembersOf(chain) : m.child.kind = "field"}
        others == {m \in MembersOf(chain) : m.child.kind # "field"}
    IN  \/ \E a \in fields, b \in fields : a.at < b.at
        \/ \E a \in fields, b \in fields : a.child.access # b.child.access
        \/ \E m \in others : m.child.virtual
        \/ \E m \in fields : \E u \in Unwrapped(m.child.type) :
               ~m.child.unsafe /\ ~is_pod(u) /\ ~is_void(u) /\ Rejects(u)

\* the method returns a class by value that is neither POD nor marked as unsafe ABI
ReturnsClass ==
    /\ apc \notin {"new", "idle"}
    /\ ~method.unsafe
    /\ Len(method.result) = 1
    /\ Head(method.result) \in ClassNames
    /\ ~is_pod(method.result)

\* a warning was reported before the error about the return type
WarnedBefore ==
    \E k \in 1..Len(stack[1].diagnostics), j \in 1..Len(stack[1].diagnostics) :
        /\ j < k
        /\ stack[1].diagnostics[j].level = WARNING
        /\ stack[1].diagnostics[k].message = <<"return type is not ABI safe">>

\* C22: for a type that is neither POD nor void, is_standard_layout returns False, after
\* a diagnostic on the offending member, when a class of the chain and one of its
\* ancestors both declare fields, when two fields differ in access, when a member that
\* is no field is a virtual method, or when a field's type is not ABI safe at a level
\* reached by unwrapping pointers that are not interface pointers; it returns True when
\* none of these holds
C22_StandardLayout ==
    ReturnsClass =>
        /\ ReturnErrorReported <=> Rejects(method.result)
        /\ ReturnErrorReported => WarnedBefore

\* a class is returned whose only flaw is a field that points to a class with a virtual
\* method: the check failed on what the field's type points to
C22_Witness ==
    /\ ReturnsClass
    /\ method.result = <<"Holder">>
    /\ ReturnErrorReported
    /\ WarnedBefore
    /\ ~Rejects(<<"Ctor">>)

\* Method.__init__ reported an error of its own for the method: its name, pure virtual,
\* noexcept or its return type
MethodFailed == apc # "new" /\ MethodChecks(method) # <<>>

\* C20: a validation failure at or above the error threshold on a declaration is
\* reported and aborts the remaining traversal of the declaration's subtree: after
\* Method.__init__ reported an error for the method, the method is invalid and none of
\* its parameters is built
C20_FailureAborts ==
    MethodFailed =>
        /\ ~valid(stack, 1)
        /\ parameters = 0

\* the one parameter of the method, its type from the level on, its tags and whether
\* what it points to is const at the level
OnlyParm == method.params[1]

TypeAt(level) == SubSeq(OnlyParm.type, level, Len(OnlyParm.type))

TagsAt(level) == OnlyParm.attrs[level]

ConstAt(level) == OnlyParm.const[level]

PointerLevels == 1..(Len(OnlyParm.type) - 1)

OpaqueAt(level) == TypeAt(level + 1) = <<"Opaque">>

InterfaceAt(level) == TypeAt(level + 1) = <<"IFoo">>

\* the walk reaches the level: every level before it is a pointer to something that is
\* neither an interface nor an opaque struct
Reached(level) == \A j \in 1..(level - 1) : ~OpaqueAt(j) /\ ~InterfaceAt(j)

\* the parameter was validated
Validated == apc = "raised" \/ parameters = 1

\* what the validation reported: the children of the block's message, the fatal child
\* of the exception aside; nothing when the block was valid
Reported ==
    IF apc = "raised"
    THEN SubSeq(stack[1].diagnostics[1].nested, 1, Len(stack[1].diagnostics[1].nested) - 1)
    ELSE <<>>

\* the validation reported the error about an option at the level
Blames(level, name, text) ==
    \E k \in 1..Len(Reported) :
        Reported[k] = DiagnosticMessage(ERROR, Some(Loc1),
                                        <<"'">> \o indirection(level) \o <<name, text>>)

BlamesUntagged(level) ==
    \E k \in 1..Len(Reported) :
        /\ Reported[k].level = ERROR
        /\ Reported[k].message[1] = "pointer must have '"
        /\ Len(Reported[k].message) = 3 * (level - 1) + 4

\* C26: the validation of a parameter goes down the pointer levels with one set of
\* tags per level: at a level that points to neither an interface nor an opaque struct
\* it reports an error for in without out on a non-const pointee, for out on a const
\* pointee, and for a level with none of in, out and c_str; at a pointer to an opaque
\* struct it reports an error for each of in, out and c_str that is set and stops; it
\* stops at the first interface pointer and at a type that is no pointer
C26_PointerRules ==
    Validated =>
        \A level \in PointerLevels :
            /\ Blames(level, "in", "' OMNI_ATTR must be on a const pointer") <=>
                   /\ Reached(level) /\ ~OpaqueAt(level) /\ ~InterfaceAt(level)
                   /\ "in" \in TagsAt(level) /\ "out" \notin TagsAt(level)
                   /\ ~ConstAt(level)
            /\ Blames(level, "out", "' OMNI_ATTR must be on a non-const pointer") <=>
                   /\ Reached(level) /\ ~OpaqueAt(level) /\ ~InterfaceAt(level)
                   /\ "out" \in TagsAt(level)
                   /\ ConstAt(level)
            /\ BlamesUntagged(level) <=>
                   /\ Reached(level) /\ ~OpaqueAt(level) /\ ~InterfaceAt(level)
                   /\ TagsAt(level) = {}
            /\ \A name \in {"in", "out", "c_str"} :
                   Blames(level, name, "' OMNI_ATTR must not be on opaque types") <=>
                       (Reached(level) /\ OpaqueAt(level) /\ name \in TagsAt(level))

\* an in pointer to a non-const pointer to an opaque struct tagged in and out: one
\* error at the first level, two at the second
C26_Witness ==
    /\ apc = "raised"
    /\ OnlyParm = ParmDecl(<<"*", "*", "Opaque">>, <<FALSE, FALSE>>,
                           <<{"in"}, {"in", "out"}>>, FALSE)
    /\ Len(Reported) = 3
    /\ Blames(1, "in", "' OMNI_ATTR must be on a const pointer")
    /\ Blames(2, "in", "' OMNI_ATTR must not be on opaque types")
    /\ Blames(2, "out", "' OMNI_ATTR must not be on opaque types")

\* the validation reported a diagnostic at or above the error threshold
Crossing(reported, threshold) == \E k \in 1..Len(reported) : reported[k].level >= threshold

\* the message the last block handed to the root reporter
Handed == stack'[1].diagnostics[Len(stack'[1].diagnostics)]

\* the block of a parameter failed: DiagnosticException leaves Parameter.__init__, the
\* block's message is appended to the parent at FATAL, its last child is the fatal
\* message for the exception and its other children, what the validation reported, are
\* no worse than ERROR
FailedScope ==
    /\ exc' # None
    /\ exc'[1].type = "DiagnosticException"
    /\ exc'[1].diagnostic[1].level = ERROR
    /\ apc' = "raised"
    /\ Len(stack'[1].diagnostics) = Len(stack[1].diagnostics) + 1
    /\ Handed.level = FATAL
    /\ Handed.message = <<"checking ABI safety">>
    /\ Len(Handed.nested) >= 2
    /\ \A k \in 1..Len(Handed.nested) :
          IF k = Len(Handed.nested) THEN Handed.nested[k].level = FATAL
          ELSE Handed.nested[k].level <= ERROR
    /\ \E k \in 1..(Len(Handed.nested) - 1) : Handed.nested[k] = exc'[1].diagnostic[1]

\* C29: if the validation of a Parameter reports a diagnostic at or above the error
\* threshold in its 'checking ABI safety' block, DiagnosticException is raised out of
\* the block and the block's message reaches the parent at FATAL with one more, fatal,
\* child, although the worst reported was an ERROR; if it reports none, nothing is raised
C29_ParameterScope ==
    [][(apc = "parameters" /\ parameters < Len(method.params)) =>
           IF Crossing(_validate_attributes(method.params[parameters + 1],
                                            method.params[parameters + 1].type, 1),
                       diagnostic_error_level(stack, 1))
           THEN FailedScope
           ELSE exc' = None /\ apc' = "parameters" /\ parameters' = parameters + 1]_vars

\* the second parameter failed with one error: the root holds the block's message at
\* FATAL with the error and the fatal child
C29_Witness ==
    /\ apc = "raised"
    /\ parameters = 1
    /\ exc # None
    /\ exc[1].type = "DiagnosticException"
    /\ stack[1].worst = FATAL
    /\ LET m == stack[1].diagnostics[Len(stack[1].diagnostics)]
       IN  /\ m.level = FATAL
           /\ Len(m.nested) = 2
           /\ m.nested[1].level = ERROR
           /\ m.nested[2].level = FATAL

----------------------------------------------------------------------------
(* Properties of main() and of the generator's commit *)

Dests == {"api", "py"}

DestOf(k) == IF k = "api" THEN ApiFile ELSE PyFile

Done == pc = "done"

\* the file name was written or moved onto during this run
Replaced(name) ==
    \E k \in 1..Len(fsLog) : fsLog[k].file = name /\ fsLog[k].op \in {"write", "move"}

Touched(name) ==
    \E k \in 1..Len(fsLog) : fsLog[k].file = name /\ fsLog[k].op = "touch"

\* the run committed output k, and what it rendered differs from the output that
\* existed when the run started, the copyright line aside
CommittedDiffering(k) ==
    /\ argv[k]
    /\ run[k] # "none"
    /\ exists(fs0, DestOf(k))
    /\ read_lines(fs0[DestOf(k)][1].content) # run.body \o <<Blank>>

\* the reporter holds the error of --fail-on-write for the output
FailOnWriteReported(name) ==
    \E k \in 1..Len(stack[1].diagnostics) :
        /\ stack[1].diagnostics[k].level = ERROR
        /\ Len(stack[1].diagnostics[k].message) >= Len(error_message(name))
        /\ SubSeq(stack[1].diagnostics[k].message, 1, Len(error_message(name)))
               = error_message(name)

\* C2: a run of main() that ends with a non-zero exit code leaves the content of every
\* --api / --py output that existed before the run as it was
C2_NoReplace ==
    (Done /\ exitCode # Some(0)) =>
        \A k \in Dests :
            (argv[k] /\ exists(fs0, DestOf(k))) =>
                /\ exists(fs, DestOf(k))
                /\ fs[DestOf(k)][1].content = fs0[DestOf(k)][1].content

\* C3: with --fail-on-write, a run that commits content differing from the existing
\* output (copyright line aside) reports the fail-on-write error for it, exits
\* non-zero, and leaves the output as it was
C3_FailOnWrite ==
    \A k \in Dests :
        (Done /\ argv.fail /\ CommittedDiffering(k)) =>
            /\ FailOnWriteReported(DestOf(k))
            /\ exitCode = Some(1)
            /\ fs[DestOf(k)] = fs0[DestOf(k)]

\* the run committed output k, and what it rendered equals the output that existed
\* when the run started, the copyright line aside
CommittedSame(k) ==
    /\ argv[k]
    /\ run[k] # "none"
    /\ exists(fs0, DestOf(k))
    /\ read_lines(fs0[DestOf(k)][1].content) = run.body \o <<Blank>>

\* C25: with --fail-on-write, a commit whose rendered content equals the existing
\* output (copyright line aside) reports no fail-on-write error, does not abort and
\* leaves the output's content as it was, with and without --skip-write-if-same
C25_FailOnlyOnChange ==
    \A k \in Dests :
        (argv.fail /\ CommittedSame(k)) =>
            /\ ~FailOnWriteReported(DestOf(k))
            /\ run[k] = "ok"
            /\ exists(fs, DestOf(k))
            /\ fs[DestOf(k)][1].content = fs0[DestOf(k)][1].content

\* the bytes of a file, None for a file that does not exist
ContentOf(f, name) == IF exists(f, name) THEN Some(f[name][1].content) ELSE None

\* the step commits output k
Commits(k) == pc = k /\ argv[k]

SecondCommit(k) ==
    /\ runs # <<>>
    /\ argv.skip
    /\ argv[k]
    /\ runs[1].run[k] = "ok"
    /\ run[k] # "none"
    /\ run.body = runs[1].run.body

\* C4: with skip_write_if_same, committing the same rendered content a second time
\* leaves the output's lines, copyright line included, as the first commit left them,
\* writes nothing onto the output, touches its modification time, and removes the
\* temporary file
C4_Idempotent ==
    \A k \in Dests :
        SecondCommit(k) =>
            /\ run[k] = "ok"
            /\ exists(fs, DestOf(k))
            /\ fs[DestOf(k)][1].content = runs[1].fs[DestOf(k)][1].content
            /\ ~Replaced(DestOf(k))
            /\ Touched(DestOf(k))
            /\ fs[DestOf(k)][1].mtime > runs[1].fs[DestOf(k)][1].mtime
            /\ ~exists(fs, tmp_filename(DestOf(k)))

\* the first commit wrote the output, the second run is a year later
C4_Witness ==
    /\ SecondCommit("api")
    /\ run.today # runs[1].run.today
    /\ fs[ApiFile][1].content = Output(<<OldYear, Today>>, BodyB)
    /\ ~argv.fail

\* C5: main() ends with exit code 0 exactly when no exception left it and the worst
\* accepted diagnostic is below ERROR; with no exception and nothing worse than a
\* WARNING accepted the code is 0, with an ERROR or FATAL accepted it is 1
C5_ExitCode ==
    Done =>
        /\ exitCode = Some(0) <=>
               (escaped = None /\ MaxLevel(stack[1].diagnostics) < ERROR)
        /\ (escaped = None /\ MaxLevel(stack[1].diagnostics) <= WARNING) =>
               exitCode = Some(0)
        /\ MaxLevel(stack[1].diagnostics) >= ERROR => exitCode = Some(1)

\* a run that accepted a warning and nothing worse, and returned 0 after generating
C5_Witness ==
    /\ Done
    /\ exitCode = Some(0)
    /\ MaxLevel(stack[1].diagnostics) = WARNING
    /\ run.api = "ok"

\* the files the non-empty lines of the manifest name, in the files f
Included(f) ==
    {ln \in {Texts(f[IncludesFile][1].content)[k] :
                k \in 1..Len(f[IncludesFile][1].content)} : ln # ""}

\* the outputs main() declares: --api, --py and the manifest itself
DeclaredOutputs == {generated_files[k] : k \in 1..Len(generated_files)}

\* what the up-to-date check asks of the files f
UpToDate(f) ==
    /\ exists(f, IncludesFile)
    /\ \A o \in DeclaredOutputs : exists(f, o)
    /\ \A i \in Included(f) :
          /\ exists(f, i)
          /\ \A o \in DeclaredOutputs : ~(f[i][1].mtime > f[o][1].mtime)

\* main() returned 0 from the up-to-date check: no step parsed, no file was touched
ReturnsEarly ==
    /\ pc' = "done"
    /\ exitCode' = Some(0)
    /\ escaped' = None
    /\ fs' = fs
    /\ fsLog' = fsLog
    /\ run' = run

\* C19: with -M and without --ast, the first step of main() returns 0 with no file
\* touched and nothing parsed exactly when the manifest exists, every declared output
\* exists, every non-empty manifest line names an existing file and none of these files
\* is strictly newer than a declared output; otherwise main() goes on to parse
C19_UpToDate ==
    [][(pc = "start" /\ argv.M /\ ~argv.ast) =>
           /\ ReturnsEarly <=> UpToDate(fs)
           /\ ~UpToDate(fs) => pc' = "parse"]_vars

\* a first run that found everything up to date and returned 0 with no file touched
C19_Witness ==
    /\ Done
    /\ runs = <<>>
    /\ argv.M /\ ~argv.ast /\ argv.api
    /\ exitCode = Some(0)
    /\ fsLog = <<>>
    /\ fs = fs0
    /\ UpToDate(fs0)
    /\ Included(fs0) = {InFile, DepFile}

====
